---- MODULE Spec2Model ----
(***************************************************************************)
(* Verification model of the YouTube children's-voice crawler utilities:   *)
(* the manifest lock (acquire_lock), the atomic JSON save                  *)
(* (FileManager.save_json), the download phase's manifest write and        *)
(* rollback, the filter phase's record selection, the upload phase and the *)
(* discovery phase's batch callback.  Each subsystem has its own           *)
(* specification; the variables of the other subsystems stay at rest.      *)
(***************************************************************************)
EXTENDS Integers, Sequences, FiniteSets, TLC

VARIABLES
    \* ---- manifest lock (src/utils/file_manager.py, ManifestManager) ----
    lock_file,      \* TRUE iff the lock-marker file exists
    lock_creator,   \* the process whose touch() created the marker (0: nobody)
    lpc,            \* lpc[p]: where process p is in acquire_lock / its critical section
    attempt,        \* attempt[p]: the local `attempt` counter of acquire_lock
    elapsed,        \* elapsed[p]: time.time() - start_time, in milliseconds
    last_wait,      \* last_wait[p]: the last wait_time slept, in milliseconds
    \* ---- atomic JSON save (src/utils/file_manager.py, FileManager.save_json) ----
    fs,             \* fs[path]: the content of the file at `path` (NoFile: none)
    backups,        \* versions copied into the backups/ directory
    spc,            \* where save_json is
    sdata,          \* the version of `data` being saved
    temp_file,      \* the local `temp_file`: "None" or the temp path
    prev_content,   \* content of file_path when the running save_json was entered
    saves,          \* number of save_json calls made so far
    observed,       \* what the reader last read at the manifest path
    obs_during,     \* TRUE iff that read was made while save_json was running
    obs_prev,       \* prev_content at the time of that read
    obs_new,        \* sdata at the time of that read
    \* ---- download phase (src/downloader/download_phases.py) ----
    records,        \* manifest_data['records'], shared by the download tasks
    total_duration, \* manifest_data['total_duration_seconds']
    disk_records,   \* the records of the manifest file as last saved
    dpc,            \* dpc[t]: where download task t is
    existing_record,\* existing_record[t]: the task updated an entry in place
    written,        \* written[t]: the record task t wrote (NoRecord: none yet)
    created,        \* every record the download phase has built
    \* ---- filter phase (src/filterer/filtering_phases.py) ----
    all_records,    \* the records of the manifest the filter loads
    video_ids,      \* the video_ids the run is restricted to
    final_records,  \* the records of the manifest the filter saves
    fpc,            \* "loaded" before the filter ran, "filtered" after
    \* ---- the batch cycle: phases 2-5 over the manifest ----
    manifest,       \* manifest[v]: the manifest record of video v
    phase,          \* the phase the workflow is in ("idle": not running)
    queue,          \* the records the running phase still has to process
    succeeded,      \* the files the running upload has transferred
    analyzed,       \* analyzed[v]: the analysis phase has classified v
    filtered,       \* filtered[v]: the filter phase has processed v
    send_count,     \* send_count[v]: times the file of v was sent to the server
    \* ---- discovery phase (src/crawler/search_phases.py) ----
    search_pc,      \* where the search loop is
    scanned,        \* search results looked at so far
    current_url_count, \* URLs accepted (added to discovered_urls.txt) so far
    last_batch_count,  \* current_url_count at the last callback that returned
    handed,         \* URLs in discovered_urls.txt when a batch last started
    periodic,       \* callbacks triggered from inside the search loop
    final_runs,     \* callbacks triggered at the end of discovery
    \* ---- YouTube API key manager: quota exhaustion poll loop ----
    key_state,      \* key_state[k]: "ok" or "exhausted"
    api_pc,         \* "searching", "waiting" (asleep) or "probing"
    current_key,    \* the key the search uses
    probe_idx,      \* the key the running poll round probes next (0: none)
    waited,         \* seconds slept in the poll loop since the search stopped
    resumed_with,   \* the key the last poll round resumed with (0: none)
    \* ---- filter phase: language folder of each record ----
    folder_records, \* the records of the pass, each with its language_folder
    target_folders, \* the folder used for each record handled so far
    \* ---- workspace root resolution ----
    manifest_file,  \* the manifest path the phases are given
    root_result,    \* per phase: pending, or the outcome of its resolution
    \* ---- TikTok channel discovery ----
    search_videos,      \* the videos the keyword search returns, in order
    video_pos,          \* how many of them were handled
    channel_pc,         \* "search" or "discovering"
    channel_current,    \* the channel being discovered
    channel_left,       \* videos of that channel still to analyse
    processed_channels, \* self.processed_channels
    channels_processed, \* channel_discovery_stats['channels_processed']
    discovery_runs,     \* per creator: calls of process_channel_exhaustively
    \* ---- phase 0: manifest cleaning ----
    clean_manifest, \* the manifest the clean phase reads and writes
    clean_input,    \* the manifest before the first run
    clean_runs,     \* runs of the clean phase so far
    first_clean,    \* the manifest the first run produced
    \* ---- voice classifier singleton ----
    vc_pc,              \* per thread: where it is in get_voice_classifier
    vc_calls,           \* per thread: calls made
    vc_lock,            \* the thread holding the lock, or NoThread
    shared_classifier,  \* VoiceClassifier._shared_classifier
    vc_local,           \* per thread: the instance it is about to return
    constructed,        \* VoiceClassifier instances created
    loaded,             \* runs of _load_model_and_processor
    model_version,      \* what the load produced
    returned_instances, \* every instance a call has returned
    \* ---- audio classification ----
    age_normalized, \* the model's age output, in hundredths
    gender_probs,   \* the model's (female, male, child) probabilities
    voice_result,   \* the label and confidence classify_age_group returned
    \* ---- downloader: one concurrent batch ----
    batch_videos,  \* the videos of the batch
    task_pc,       \* per video: none, waiting, downloading or done
    task_outcome,  \* per video: what its download returned or raised
    semaphore,     \* free slots of the semaphore
    batch_pc,      \* idle, gathering, gathered, returned or aborted
    batch_results, \* the results of the batch, in the order of the videos
    temp_artifacts, \* videos whose temporary download file is on disk
    \* ---- upload client: one parallel batch ----
    client_manifest, \* the manifest records, as the client holds and writes them
    manifest_read,   \* the records as they were read
    transfer,        \* per record: none, queued, sending, ok or failed
    free_workers,    \* idle threads of the pool
    client_pc,       \* idle, reading, uploading or done
    \* ---- upload phase: temporary manifest ----
    upload_run,               \* invocations of the upload phase so far
    upload_pc,                \* idle, in_try, cleanup, handler or exited
    temp_manifests,           \* the temporary manifests that exist on disk
    temp_manifest_path,       \* the temporary manifest of this invocation
    current_upload_folder_id, \* _current_upload_folder_id
    total_uploads,            \* files uploaded over the invocations
    exit_path,                \* how the last invocation left the phase
    \* ---- one full run over three discovered videos ----
    run_videos,  \* what each discovered video is
    run_records, \* the manifest record of each video
    run_phase,   \* idle, download, analyze, filter or done
    \* ---- configuration validation ----
    config_fields,     \* per field of the configuration: what is wrong with it
    cross_violation,   \* whether two fields contradict each other
    validation_pass,   \* passes of the validation done
    validation_errors, \* the errors collected so far
    reported_fields,   \* the fields the dry-run reported
    exit_code,         \* its exit status, -1 while it runs
    \* ---- crash and restart ----
    url_file,      \* the URLs in the discovered-URLs file
    disk_manifest, \* the manifest file
    mem_urls,      \* the URLs the running process holds
    mem_manifest,  \* the manifest the running process holds
    attempted,     \* the URLs whose download this run has tried
    resume_phase,  \* discover, download, analyze, finished or down
    crashes,       \* crashes so far
    \* ---- analysis phase ----
    analysis_records, \* the manifest records, by video
    audio_files,      \* videos whose audio file is on disk
    analysis_queue,   \* records the running analysis still has to do
    analysis_pc,      \* idle or running
    analysis_runs,    \* runs finished
    selected,         \* records in the queue of the current run
    handled,          \* records the current run has come to
    raised,           \* records whose classification raised in this run
    \* ---- channel quality ----
    qualified_videos,   \* videos of the channel that qualify
    total_videos,       \* videos of the channel that were analyzed
    promising_channels, \* the channels marked promising
    quality_pc,         \* idle, analyzed, assessed or raised
    \* ---- scheduled job ----
    sched_tick,    \* ticks fired so far
    job_pc,        \* waiting, post_rating or post_workflow
    run_outcome,   \* by tick: none, running, ok or failed
    error_log,     \* ticks whose run logged an error
    info_log,      \* the "triggered" messages, by tick
    job_scheduled, \* the job is in the scheduler's job store
    \* ---- demo page ----
    button_disabled, \* by button: its disabled attribute
    request,         \* by button: none, sent, response or rejected
    message,         \* the text of the message div
    has_input,       \* by button: a file is selected / a transcription is there
    last_call        \* by button: how its last click ended

lockVars == <<lock_file, lock_creator, lpc, attempt, elapsed, last_wait>>

saveVars == <<fs, backups, spc, sdata, temp_file, prev_content, saves,
              observed, obs_during, obs_prev, obs_new>>

dlVars == <<records, total_duration, disk_records, dpc, existing_record,
            written, created>>

filterVars == <<all_records, video_ids, final_records, fpc>>

pipeVars == <<manifest, phase, queue, succeeded, analyzed, filtered, send_count>>

searchVars == <<search_pc, scanned, current_url_count, last_batch_count,
                handed, periodic, final_runs>>

keyVars == <<key_state, api_pc, current_key, probe_idx, waited, resumed_with>>

langVars == <<folder_records, target_folders>>

rootVars == <<manifest_file, root_result>>

channelVars == <<search_videos, video_pos, channel_pc, channel_current, channel_left, processed_channels, channels_processed, discovery_runs>>

cleanVars == <<clean_manifest, clean_input, clean_runs, first_clean>>

classifierVars == <<vc_pc, vc_calls, vc_lock, shared_classifier, vc_local, constructed, loaded, model_version, returned_instances>>

voiceVars == <<age_normalized, gender_probs, voice_result>>

batchVars == <<batch_videos, task_pc, task_outcome, semaphore, batch_pc, batch_results, temp_artifacts>>

clientVars == <<client_manifest, manifest_read, transfer, free_workers, client_pc>>

uploadPhaseVars == <<upload_run, upload_pc, temp_manifests, temp_manifest_path, current_upload_folder_id, total_uploads, exit_path>>

runVars == <<run_videos, run_records, run_phase>>

validationVars == <<config_fields, cross_violation, validation_pass, validation_errors, reported_fields, exit_code>>

resumeVars == <<url_file, disk_manifest, mem_urls, mem_manifest, attempted, resume_phase, crashes>>

analysisVars == <<analysis_records, audio_files, analysis_queue, analysis_pc, analysis_runs, selected, handled, raised>>

qualityVars == <<qualified_videos, total_videos, promising_channels, quality_pc>>

schedVars == <<sched_tick, job_pc, run_outcome, error_log, info_log, job_scheduled>>

demoVars == <<button_disabled, request, message, has_input, last_call>>

vars == <<lockVars, saveVars, dlVars, filterVars, pipeVars, searchVars, keyVars, langVars, rootVars, channelVars, cleanVars, classifierVars, voiceVars, batchVars, clientVars, uploadPhaseVars, runVars, validationVars, resumeVars, analysisVars, qualityVars, schedVars, demoVars>>

\* What each subsystem leaves alone.
notLock == <<saveVars, dlVars, filterVars, pipeVars, searchVars, keyVars, langVars, rootVars, channelVars, cleanVars, classifierVars, voiceVars, batchVars, clientVars, uploadPhaseVars, runVars, validationVars, resumeVars, analysisVars, qualityVars, schedVars, demoVars>>
notSave == <<lockVars, dlVars, filterVars, pipeVars, searchVars, keyVars, langVars, rootVars, channelVars, cleanVars, classifierVars, voiceVars, batchVars, clientVars, uploadPhaseVars, runVars, validationVars, resumeVars, analysisVars, qualityVars, schedVars, demoVars>>
notDl == <<lockVars, saveVars, filterVars, pipeVars, searchVars, keyVars, langVars, rootVars, channelVars, cleanVars, classifierVars, voiceVars, batchVars, clientVars, uploadPhaseVars, runVars, validationVars, resumeVars, analysisVars, qualityVars, schedVars, demoVars>>
notFilter == <<lockVars, saveVars, dlVars, pipeVars, searchVars, keyVars, langVars, rootVars, channelVars, cleanVars, classifierVars, voiceVars, batchVars, clientVars, uploadPhaseVars, runVars, validationVars, resumeVars, analysisVars, qualityVars, schedVars, demoVars>>
notPipe == <<lockVars, saveVars, dlVars, filterVars, searchVars, keyVars, langVars, rootVars, channelVars, cleanVars, classifierVars, voiceVars, batchVars, clientVars, uploadPhaseVars, runVars, validationVars, resumeVars, analysisVars, qualityVars, schedVars, demoVars>>
notSearch == <<lockVars, saveVars, dlVars, filterVars, pipeVars, keyVars, langVars, rootVars, channelVars, cleanVars, classifierVars, voiceVars, batchVars, clientVars, uploadPhaseVars, runVars, validationVars, resumeVars, analysisVars, qualityVars, schedVars, demoVars>>
notKeys == <<lockVars, saveVars, dlVars, filterVars, pipeVars, searchVars, langVars, rootVars, channelVars, cleanVars, classifierVars, voiceVars, batchVars, clientVars, uploadPhaseVars, runVars, validationVars, resumeVars, analysisVars, qualityVars, schedVars, demoVars>>
notLang == <<lockVars, saveVars, dlVars, filterVars, pipeVars, searchVars, keyVars, rootVars, channelVars, cleanVars, classifierVars, voiceVars, batchVars, clientVars, uploadPhaseVars, runVars, validationVars, resumeVars, analysisVars, qualityVars, schedVars, demoVars>>
notRoot == <<lockVars, saveVars, dlVars, filterVars, pipeVars, searchVars, keyVars, langVars, channelVars, cleanVars, classifierVars, voiceVars, batchVars, clientVars, uploadPhaseVars, runVars, validationVars, resumeVars, analysisVars, qualityVars, schedVars, demoVars>>
notChannel == <<lockVars, saveVars, dlVars, filterVars, pipeVars, searchVars, keyVars, langVars, rootVars, cleanVars, classifierVars, voiceVars, batchVars, clientVars, uploadPhaseVars, runVars, validationVars, resumeVars, analysisVars, qualityVars, schedVars, demoVars>>
notClean == <<lockVars, saveVars, dlVars, filterVars, pipeVars, searchVars, keyVars, langVars, rootVars, channelVars, classifierVars, voiceVars, batchVars, clientVars, uploadPhaseVars, runVars, validationVars, resumeVars, analysisVars, qualityVars, schedVars, demoVars>>
notClassifier == <<lockVars, saveVars, dlVars, filterVars, pipeVars, searchVars, keyVars, langVars, rootVars, channelVars, cleanVars, voiceVars, batchVars, clientVars, uploadPhaseVars, runVars, validationVars, resumeVars, analysisVars, qualityVars, schedVars, demoVars>>
notVoice == <<lockVars, saveVars, dlVars, filterVars, pipeVars, searchVars, keyVars, langVars, rootVars, channelVars, cleanVars, classifierVars, batchVars, clientVars, uploadPhaseVars, runVars, validationVars, resumeVars, analysisVars, qualityVars, schedVars, demoVars>>
notBatch == <<lockVars, saveVars, dlVars, filterVars, pipeVars, searchVars, keyVars, langVars, rootVars, channelVars, cleanVars, classifierVars, voiceVars, clientVars, uploadPhaseVars, runVars, validationVars, resumeVars, analysisVars, qualityVars, schedVars, demoVars>>
notClient == <<lockVars, saveVars, dlVars, filterVars, pipeVars, searchVars, keyVars, langVars, rootVars, channelVars, cleanVars, classifierVars, voiceVars, batchVars, uploadPhaseVars, runVars, validationVars, resumeVars, analysisVars, qualityVars, schedVars, demoVars>>
notUploadPhase == <<lockVars, saveVars, dlVars, filterVars, pipeVars, searchVars, keyVars, langVars, rootVars, channelVars, cleanVars, classifierVars, voiceVars, batchVars, clientVars, runVars, validationVars, resumeVars, analysisVars, qualityVars, schedVars, demoVars>>
notRun == <<lockVars, saveVars, dlVars, filterVars, pipeVars, searchVars, keyVars, langVars, rootVars, channelVars, cleanVars, classifierVars, voiceVars, batchVars, clientVars, uploadPhaseVars, validationVars, resumeVars, analysisVars, qualityVars, schedVars, demoVars>>
notValidation == <<lockVars, saveVars, dlVars, filterVars, pipeVars, searchVars, keyVars, langVars, rootVars, channelVars, cleanVars, classifierVars, voiceVars, batchVars, clientVars, uploadPhaseVars, runVars, resumeVars, analysisVars, qualityVars, schedVars, demoVars>>
notResume == <<lockVars, saveVars, dlVars, filterVars, pipeVars, searchVars, keyVars, langVars, rootVars, channelVars, cleanVars, classifierVars, voiceVars, batchVars, clientVars, uploadPhaseVars, runVars, validationVars, analysisVars, qualityVars, schedVars, demoVars>>
notAnalysis == <<lockVars, saveVars, dlVars, filterVars, pipeVars, searchVars, keyVars, langVars, rootVars, channelVars, cleanVars, classifierVars, voiceVars, batchVars, clientVars, uploadPhaseVars, runVars, validationVars, resumeVars, qualityVars, schedVars, demoVars>>
notQuality == <<lockVars, saveVars, dlVars, filterVars, pipeVars, searchVars, keyVars, langVars, rootVars, channelVars, cleanVars, classifierVars, voiceVars, batchVars, clientVars, uploadPhaseVars, runVars, validationVars, resumeVars, analysisVars, schedVars, demoVars>>
notSched == <<lockVars, saveVars, dlVars, filterVars, pipeVars, searchVars, keyVars, langVars, rootVars, channelVars, cleanVars, classifierVars, voiceVars, batchVars, clientVars, uploadPhaseVars, runVars, validationVars, resumeVars, analysisVars, qualityVars, demoVars>>
notDemo == <<lockVars, saveVars, dlVars, filterVars, pipeVars, searchVars, keyVars, langVars, rootVars, channelVars, cleanVars, classifierVars, voiceVars, batchVars, clientVars, uploadPhaseVars, runVars, validationVars, resumeVars, analysisVars, qualityVars, schedVars>>

\* ------------------------------------------------------------------------
\* Manifest lock
\* ------------------------------------------------------------------------

\* Number of processes contending for the manifest lock.
NumProcs == 2
Procs == 1..NumProcs

\* self._lock_timeout, in milliseconds (configurable; the default is 30 s).
LockTimeoutMs == 60

\* 0.01 s and 1.0 s of `min(0.01 * (2 ** attempt), 1.0)`, in milliseconds.
BaseWaitMs == 10
MaxWaitMs == 1000

\* (0.5 + random.random()) lies in [0.5, 1.5): sampled in thousandths.
JitterPermille == {500, 1000, 1499}

Pow2(n) == IF n <= 0 THEN 1 ELSE 2 ^ n

Min(a, b) == IF a <= b THEN a ELSE b

\* min(0.01 * (2 ** attempt), 1.0): the backoff before jitter, in milliseconds.
BackoffBase(att) == Min(BaseWaitMs * Pow2(att), MaxWaitMs)

\* The sleep of the lock before the fix: a fixed 10 ms, with no backoff.
WaitTimeFixed(att, jit) == BaseWaitMs

\* wait_time = min(0.01 * (2 ** attempt), 1.0) * (0.5 + random.random())
WaitTime(att, jit) == (Min(BaseWaitMs * Pow2(att), MaxWaitMs) * jit) \div 1000

\* A loop that never looks at the clock (while True).
NeverTimedOut(el) == FALSE

\* while time.time() - start_time < self._lock_timeout: the negation of the
\* loop condition.
TimedOut(el) == el >= LockTimeoutMs

\* A buggy touch that succeeds whether or not the marker exists (exist_ok=True).
TouchExistOk(exists) == TRUE

\* self._lock_file.touch(exist_ok=False): succeeds iff the marker does not
\* exist yet (O_CREAT | O_EXCL); raises FileExistsError otherwise.
TouchCreates(exists) == ~exists

\* A release at the end of the cycle only: it is skipped when the cycle
\* raises.
ReleasedOnSuccess(pc) == pc = "held"

\* The release runs when the read-modify-write is over, whether it returned
\* or raised.
Released(pc) == pc \in {"held", "raised"}

LockAtRest ==
    /\ lock_file = FALSE
    /\ lock_creator = 0
    /\ lpc = [p \in Procs |-> "idle"]
    /\ attempt = [p \in Procs |-> 0]
    /\ elapsed = [p \in Procs |-> 0]
    /\ last_wait = [p \in Procs |-> 0]

\* acquire_lock entry: start_time = time.time(); attempt = 0
StartAcquire(p) ==
    /\ lpc[p] = "idle"
    /\ lpc' = [lpc EXCEPT ![p] = "loop"]
    /\ attempt' = [attempt EXCEPT ![p] = 0]
    /\ elapsed' = [elapsed EXCEPT ![p] = 0]
    /\ last_wait' = [last_wait EXCEPT ![p] = 0]
    /\ UNCHANGED <<lock_file, lock_creator>>
    /\ UNCHANGED notLock

\* One iteration of the while loop whose touch succeeds: return True.
AcquireSucceed(p) ==
    /\ lpc[p] = "loop"
    /\ ~TimedOut(elapsed[p])
    /\ TouchCreates(lock_file)
    /\ lock_file' = TRUE
    /\ lock_creator' = p
    /\ lpc' = [lpc EXCEPT ![p] = "held"]
    /\ UNCHANGED <<attempt, elapsed, last_wait>>
    /\ UNCHANGED notLock

\* One iteration whose touch raises FileExistsError: attempt += 1, sleep.
AcquireBackoff(p) ==
    /\ lpc[p] = "loop"
    /\ ~TimedOut(elapsed[p])
    /\ ~TouchCreates(lock_file)
    /\ \E jit \in JitterPermille :
        LET w == WaitTime(attempt[p] + 1, jit) IN
        /\ attempt' = [attempt EXCEPT ![p] = @ + 1]
        /\ last_wait' = [last_wait EXCEPT ![p] = w]
        /\ elapsed' = [elapsed EXCEPT ![p] = @ + w]
    /\ UNCHANGED <<lock_file, lock_creator, lpc>>
    /\ UNCHANGED notLock

\* The while condition fails: warning "Timeout acquiring manifest lock", return False.
AcquireTimeout(p) ==
    /\ lpc[p] = "loop"
    /\ TimedOut(elapsed[p])
    /\ lpc' = [lpc EXCEPT ![p] = "failed"]
    /\ UNCHANGED <<lock_file, lock_creator, attempt, elapsed, last_wait>>
    /\ UNCHANGED notLock

\* The caller that got False gives up this read-modify-write cycle; the locals
\* of the finished call are gone.
GiveUp(p) ==
    /\ lpc[p] = "failed"
    /\ lpc' = [lpc EXCEPT ![p] = "idle"]
    /\ attempt' = [attempt EXCEPT ![p] = 0]
    /\ elapsed' = [elapsed EXCEPT ![p] = 0]
    /\ last_wait' = [last_wait EXCEPT ![p] = 0]
    /\ UNCHANGED <<lock_file, lock_creator>>
    /\ UNCHANGED notLock

\* The read-modify-write of the holder raises an exception.
CycleRaises(p) ==
    /\ lpc[p] = "held"
    /\ lpc' = [lpc EXCEPT ![p] = "raised"]
    /\ UNCHANGED <<lock_file, lock_creator, attempt, elapsed, last_wait>>
    /\ UNCHANGED notLock

\* release: the holder removes the marker file at the end of its cycle; the
\* locals of the finished acquire_lock call are gone.  After an exception
\* the exception goes on to the caller once the marker is removed.
ReleaseLock(p) ==
    /\ Released(lpc[p])
    /\ lock_file' = FALSE
    /\ lock_creator' = 0
    /\ lpc' = [lpc EXCEPT ![p] = IF lpc[p] = "raised" THEN "propagating" ELSE "idle"]
    /\ attempt' = [attempt EXCEPT ![p] = 0]
    /\ elapsed' = [elapsed EXCEPT ![p] = 0]
    /\ last_wait' = [last_wait EXCEPT ![p] = 0]
    /\ UNCHANGED notLock

\* The caller has dealt with the exception of the cycle.
ExceptionHandled(p) ==
    /\ lpc[p] = "propagating"
    /\ lpc' = [lpc EXCEPT ![p] = "idle"]
    /\ UNCHANGED <<lock_file, lock_creator, attempt, elapsed, last_wait>>
    /\ UNCHANGED notLock

LockStep ==
    \E p \in Procs :
        \/ StartAcquire(p)
        \/ AcquireSucceed(p)
        \/ AcquireBackoff(p)
        \/ AcquireTimeout(p)
        \/ GiveUp(p)
        \/ CycleRaises(p)
        \/ ReleaseLock(p)
        \/ ExceptionHandled(p)

Holders == {p \in Procs : lpc[p] \in {"held", "raised"}}

\* C1: at most one process holds the manifest lock at any time, and a process
\* holds it (acquire_lock returned True to it) only if the marker file exists
\* and was created by that process's own touch.
C1_MutualExclusion ==
    /\ Cardinality(Holders) <= 1
    /\ \A p \in Holders : lock_file /\ lock_creator = p

\* C1 witness: one process holds the lock while another one has already been
\* refused at least once and is backing off.
C1_Witness ==
    \E p, q \in Procs : p # q /\ lpc[p] = "held" /\ lpc[q] = "loop" /\ attempt[q] >= 2

C13_AcquireTerminates ==
    /\ \A p \in Procs : (lpc[p] = "loop") ~> (lpc[p] \in {"held", "failed"})
    /\ [](\A p \in Procs :
            /\ lpc[p] = "failed" => elapsed[p] >= LockTimeoutMs
            /\ lpc[p] = "held" => lock_creator = p
            /\ elapsed[p] < LockTimeoutMs + (3 * MaxWaitMs) \div 2)

\* C13 witness: the lock stayed held by one process and the acquire_lock of
\* the other one gave up after the timeout, having retried at least 3 times.
C13_Witness ==
    \E p, q \in Procs :
        /\ lpc[p] = "held"
        /\ lpc[q] = "failed"
        /\ attempt[q] >= 3
        /\ elapsed[q] >= LockTimeoutMs

ChunkCount == 2

\* Number of save_json calls a behaviour makes.
MaxSaves == 2

FilePath == "manifest.json"
TempPath == "manifest.json.tmp"
Paths == {FilePath, TempPath}

NoFile == [ver |-> 0, chunks |-> 0]
Complete(v) == [ver |-> v, chunks |-> ChunkCount]
Exists(path) == fs[path] # NoFile

\* A buggy save that writes the document straight into file_path.
WritePathInPlace(file_path, tmp_path) == file_path

\* with open(temp_file, 'w') ...: json.dump writes into the temporary file.
WritePath(file_path, tmp_path) == tmp_path

SaveAtRest ==
    /\ fs = [p \in Paths |-> NoFile]
    /\ backups = {}
    /\ spc = "idle"
    /\ sdata = 0
    /\ temp_file = "None"
    /\ prev_content = NoFile
    /\ saves = 0
    /\ observed = NoFile
    /\ obs_during = FALSE
    /\ obs_prev = NoFile
    /\ obs_new = 0

\* The manifest is absent or complete; a crashed earlier save may have left a
\* partial temporary file behind.
SaveStart ==
    /\ backups = {}
    /\ spc = "idle"
    /\ sdata = 0
    /\ temp_file = "None"
    /\ prev_content = NoFile
    /\ saves = 0
    /\ observed = NoFile
    /\ obs_during = FALSE
    /\ obs_prev = NoFile
    /\ obs_new = 0
    /\ \E m \in {NoFile, Complete(1)}, t \in {NoFile, [ver |-> 1, chunks |-> 1]} :
          fs = [p \in Paths |-> IF p = FilePath THEN m ELSE t]

\* save_json entry: temp_file = None; file_path.parent.mkdir(...)
SaveEnter ==
    /\ spc = "idle"
    /\ saves < MaxSaves
    /\ saves' = saves + 1
    /\ sdata' = saves + 2
    /\ temp_file' = "None"
    /\ prev_content' = fs[FilePath]
    /\ spc' = "backup"
    /\ UNCHANGED <<fs, backups, observed, obs_during, obs_prev, obs_new>>
    /\ UNCHANGED notSave

\* if file_path.exists(): self.create_backup(file_path) succeeds.
SaveBackupOk ==
    /\ spc = "backup"
    /\ Exists(FilePath)
    /\ backups' = backups \cup {fs[FilePath].ver}
    /\ spc' = "prepare"
    /\ UNCHANGED <<fs, sdata, temp_file, prev_content, saves,
                   observed, obs_during, obs_prev, obs_new>>
    /\ UNCHANGED notSave

\* No file to back up, or create_backup raised: a warning, the save goes on.
SaveBackupSkip ==
    /\ spc = "backup"
    /\ spc' = "prepare"
    /\ UNCHANGED <<fs, backups, sdata, temp_file, prev_content, saves,
                   observed, obs_during, obs_prev, obs_new>>
    /\ UNCHANGED notSave

\* temp_file = file_path.with_suffix(...); if temp_file.exists(): temp_file.unlink()
SavePrepare ==
    /\ spc = "prepare"
    /\ temp_file' = TempPath
    /\ fs' = [fs EXCEPT ![TempPath] = NoFile]
    /\ spc' = "open"
    /\ UNCHANGED <<backups, sdata, prev_content, saves,
                   observed, obs_during, obs_prev, obs_new>>
    /\ UNCHANGED notSave

\* open(temp_file, 'w'): the file is created (or truncated) empty.
SaveOpen ==
    /\ spc = "open"
    /\ fs' = [fs EXCEPT ![WritePath(FilePath, TempPath)] = [ver |-> sdata, chunks |-> 0]]
    /\ spc' = "write"
    /\ UNCHANGED <<backups, sdata, temp_file, prev_content, saves,
                   observed, obs_during, obs_prev, obs_new>>
    /\ UNCHANGED notSave

\* json.dump writes the next chunk of the document.
SaveWriteChunk ==
    /\ spc = "write"
    /\ LET w == WritePath(FilePath, TempPath) IN
        /\ fs[w].chunks < ChunkCount
        /\ fs' = [fs EXCEPT ![w] = [ver |-> sdata, chunks |-> fs[w].chunks + 1]]
        /\ spc' = IF fs[w].chunks + 1 = ChunkCount THEN "replace" ELSE "write"
    /\ UNCHANGED <<backups, sdata, temp_file, prev_content, saves,
                   observed, obs_during, obs_prev, obs_new>>
    /\ UNCHANGED notSave

\* temp_file.replace(file_path): the rename is atomic; return True.
SaveReplace ==
    /\ spc = "replace"
    /\ Exists(TempPath)
    /\ fs' = [fs EXCEPT ![FilePath] = fs[TempPath], ![TempPath] = NoFile]
    /\ spc' = "returned"
    /\ UNCHANGED <<backups, sdata, temp_file, prev_content, saves,
                   observed, obs_during, obs_prev, obs_new>>
    /\ UNCHANGED notSave

\* Any statement of the try block raises (open, json.dump or replace fails).
SaveRaise ==
    /\ spc \in {"prepare", "open", "write", "replace"}
    /\ spc' = "except"
    /\ UNCHANGED <<fs, backups, sdata, temp_file, prev_content, saves,
                   observed, obs_during, obs_prev, obs_new>>
    /\ UNCHANGED notSave

\* except: if temp_file and temp_file.exists(): temp_file.unlink(); return False
SaveCleanup ==
    /\ spc = "except"
    /\ fs' = IF temp_file # "None" /\ Exists(TempPath)
             THEN [fs EXCEPT ![TempPath] = NoFile]
             ELSE fs
    /\ spc' = "returned"
    /\ UNCHANGED <<backups, sdata, temp_file, prev_content, saves,
                   observed, obs_during, obs_prev, obs_new>>
    /\ UNCHANGED notSave

\* except: the cleanup unlink itself raises; the error is logged; return False
SaveCleanupFails ==
    /\ spc = "except"
    /\ temp_file # "None" /\ Exists(TempPath)
    /\ spc' = "returned"
    /\ UNCHANGED <<fs, backups, sdata, temp_file, prev_content, saves,
                   observed, obs_during, obs_prev, obs_new>>
    /\ UNCHANGED notSave

\* save_json has returned to its caller.
SaveReturn ==
    /\ spc = "returned"
    /\ spc' = "idle"
    /\ UNCHANGED <<fs, backups, sdata, temp_file, prev_content, saves,
                   observed, obs_during, obs_prev, obs_new>>
    /\ UNCHANGED notSave

\* Another process reads the file at the manifest path.
ReadManifest ==
    /\ observed' = fs[FilePath]
    /\ obs_during' = (spc \notin {"idle", "returned"})
    /\ obs_prev' = prev_content
    /\ obs_new' = sdata
    /\ UNCHANGED <<fs, backups, spc, sdata, temp_file, prev_content, saves>>
    /\ UNCHANGED notSave

SaveStep ==
    \/ SaveEnter
    \/ SaveBackupOk
    \/ SaveBackupSkip
    \/ SavePrepare
    \/ SaveOpen
    \/ SaveWriteChunk
    \/ SaveReplace
    \/ SaveRaise
    \/ SaveCleanup
    \/ SaveCleanupFails
    \/ SaveReturn
    \/ ReadManifest

\* C3: a read of the manifest path made while save_json is running returns
\* the complete previous content or the complete new content, never a
\* partially written file.
C3_ReaderSeesWholeFile ==
    obs_during =>
        /\ observed \in {obs_prev, Complete(obs_new)}
        /\ observed # NoFile => observed.chunks = ChunkCount

\* C36: when save_json has returned, with True or with False, no temporary
\* file of the target is on disk.
C36_NoTempAfterReturn ==
    spc = "returned" => ~Exists(TempPath)

\* C36, the paths that do clean up: after a save that returned True, and
\* after a failed save whose cleanup ran and whose unlink went through, no
\* temporary file is on disk.
C36_TempRemovedWhenCleanupRuns ==
    [][(\/ SaveReplace
        \/ (SaveCleanup /\ temp_file # "None")) => ~Exists(TempPath)']_vars

\* C3 witness: a reader read the manifest path while json.dump was half way
\* through the new document, and got the complete previous content.
C3_Witness ==
    /\ obs_during
    /\ spc = "write"
    /\ Exists(WritePath(FilePath, TempPath))
    /\ fs[WritePath(FilePath, TempPath)].chunks = 1
    /\ observed = Complete(1)
    /\ sdata = obs_new

\* ------------------------------------------------------------------------
\* Download phase: manifest write, file move, rollback
\* ------------------------------------------------------------------------

\* Number of concurrent download tasks; task t downloads video t.
NumDownloads == 2
Tasks == 1..NumDownloads

\* Duration of every downloaded audio file, in seconds.
Duration == 1

NoRecord == [video_id |-> 0]

\* The record structure of the manifest.
SchemaFields ==
    {"video_id", "url", "title", "output_path", "status", "download_index",
     "duration_seconds", "all_downloads_failed", "classified",
     "containing_children_voice", "voice_analysis_confidence",
     "detected_language", "language_confidence", "classification_timestamp",
     "language_folder", "file_available", "uploaded", "upload_timestamp"}

\* record = {...} built after a successful download.
SuccessRecord(video, download_index) ==
    [video_id |-> video,
     url |-> video,
     output_path |-> "new_path",
     status |-> "success",
     timestamp |-> "now",
     duration_seconds |-> Duration,
     title |-> "title",
     language_folder |-> "unknown",
     download_index |-> download_index,
     classified |-> FALSE,
     classification_timestamp |-> "None",
     containing_children_voice |-> "None",
     voice_analysis_confidence |-> 0,
     uploaded |-> FALSE,
     file_available |-> TRUE]

\* failed_record = {...} built when every download method failed, with the
\* four classification and upload fields the fix adds.
FailedRecord(video, recs) ==
    [video_id |-> video,
     url |-> video,
     output_path |-> "None",
     status |-> "failed",
     timestamp |-> "now",
     duration_seconds |-> 0,
     title |-> "title",
     language_folder |-> "unknown",
     download_index |-> Len(recs),
     classified |-> FALSE,
     file_available |-> FALSE,
     all_downloads_failed |-> TRUE,
     classification_timestamp |-> "None",
     containing_children_voice |-> "None",
     voice_analysis_confidence |-> 0,
     uploaded |-> FALSE]

\* A record of an earlier run, as the manifest documents it.
OldFailedRecord(video) ==
    [f \in SchemaFields |->
        CASE f = "video_id" -> video
          [] f = "url" -> video
          [] f = "status" -> "failed"
          [] f \in {"duration_seconds", "download_index",
                    "voice_analysis_confidence", "language_confidence"} -> 0
          [] f \in {"classified", "file_available", "uploaded"} -> FALSE
          [] f = "all_downloads_failed" -> TRUE
          [] f = "title" -> "title"
          [] f = "language_folder" -> "unknown"
          [] OTHER -> "None"]

\* Index of the first record with this video_id, 0 if there is none.
IndexOf(recs, video) ==
    IF \E i \in 1..Len(recs) : recs[i].video_id = video
    THEN CHOOSE i \in 1..Len(recs) :
            /\ recs[i].video_id = video
            /\ \A j \in 1..(i - 1) : recs[j].video_id # video
    ELSE 0

\* A rollback that removes the record with the task's own video_id.
PopOwn(recs, video) ==
    SelectSeq(recs, LAMBDA r : r.video_id # video)

\* manifest_data['records'].pop(): removes the last record of the list.
Pop(recs, video) == SubSeq(recs, 1, Len(recs) - 1)

DlAtRest ==
    /\ records = <<>>
    /\ total_duration = 0
    /\ disk_records = <<>>
    /\ dpc = [t \in Tasks |-> "pending"]
    /\ existing_record = [t \in Tasks |-> FALSE]
    /\ written = [t \in Tasks |-> NoRecord]
    /\ created = {}

\* The manifest of an earlier run is empty or holds the failed record of
\* video 1, which this run downloads again.
DlStart ==
    /\ \E old \in {<<>>, <<OldFailedRecord(1)>>} :
        /\ records = old
        /\ disk_records = old
    /\ total_duration = 0
    /\ dpc = [t \in Tasks |-> "pending"]
    /\ existing_record = [t \in Tasks |-> FALSE]
    /\ written = [t \in Tasks |-> NoRecord]
    /\ created = {}

\* The download of task t returns a successful DownloadResult.
DownloadOk(t) ==
    /\ dpc[t] = "pending"
    /\ dpc' = [dpc EXCEPT ![t] = "downloaded"]
    /\ UNCHANGED <<records, total_duration, disk_records, existing_record,
                   written, created>>
    /\ UNCHANGED notDl

\* Every download method failed: the failed record is written and saved.
DownloadFailed(t) ==
    /\ dpc[t] = "pending"
    /\ LET i == IndexOf(records, t)
           rec == FailedRecord(t, records)
           recs == IF i = 0 THEN Append(records, rec)
                   ELSE [records EXCEPT ![i] = rec]
       IN /\ records' = recs
          /\ disk_records' = recs
          /\ written' = [written EXCEPT ![t] = rec]
          /\ created' = created \cup {rec}
          /\ existing_record' = [existing_record EXCEPT ![t] = (i # 0)]
    /\ dpc' = [dpc EXCEPT ![t] = "done_failed"]
    /\ UNCHANGED total_duration
    /\ UNCHANGED notDl

\* The record is appended, or the existing entry updated in place, and
\* file_manager.save_json(manifest_file, manifest_data) runs BEFORE the move.
WriteManifest(t) ==
    /\ dpc[t] = "downloaded"
    /\ LET i == IndexOf(records, t)
           rec == SuccessRecord(t, IF i = 0 THEN Len(records) ELSE i - 1)
           recs == IF i = 0 THEN Append(records, rec)
                   ELSE [records EXCEPT ![i] = rec]
       IN /\ records' = recs
          /\ disk_records' = recs
          /\ written' = [written EXCEPT ![t] = rec]
          /\ created' = created \cup {rec}
          /\ existing_record' = [existing_record EXCEPT ![t] = (i # 0)]
    /\ total_duration' = total_duration + Duration
    /\ dpc' = [dpc EXCEPT ![t] = "saved"]
    /\ UNCHANGED notDl

\* output_path.rename(new_path) succeeds and new_path.exists() afterwards.
MoveOk(t) ==
    /\ dpc[t] = "saved"
    /\ dpc' = [dpc EXCEPT ![t] = "done_ok"]
    /\ UNCHANGED <<records, total_duration, disk_records, existing_record,
                   written, created>>
    /\ UNCHANGED notDl

\* The rename raises, or the file is not at new_path after the move.
MoveFails(t) ==
    /\ dpc[t] = "saved"
    /\ dpc' = [dpc EXCEPT ![t] = "rollback"]
    /\ UNCHANGED <<records, total_duration, disk_records, existing_record,
                   written, created>>
    /\ UNCHANGED notDl

\* except: if not existing_record: records.pop(); total -= duration; then
\* save_json.  pop() on an empty list raises inside the rollback's own try.
Rollback(t) ==
    /\ dpc[t] = "rollback"
    /\ IF ~existing_record[t] /\ Len(records) > 0
       THEN /\ records' = Pop(records, t)
            /\ total_duration' = total_duration - Duration
            /\ disk_records' = Pop(records, t)
       ELSE /\ UNCHANGED <<records, total_duration>>
            /\ disk_records' = IF existing_record[t] THEN records ELSE disk_records
    /\ dpc' = [dpc EXCEPT ![t] = "rolled_back"]
    /\ UNCHANGED <<existing_record, written, created>>
    /\ UNCHANGED notDl

DlStep ==
    \E t \in Tasks :
        \/ DownloadOk(t)
        \/ DownloadFailed(t)
        \/ WriteManifest(t)
        \/ MoveOk(t)
        \/ MoveFails(t)
        \/ Rollback(t)

Contains(recs, rec) == \E i \in 1..Len(recs) : recs[i] = rec

\* C2: once the concurrent downloads have finished, the manifest holds the
\* record of every download that completed (its move succeeded, or its
\* failure was recorded): no append or update is lost to another's write.
C2_NoRecordLost ==
    \A t \in Tasks :
        dpc[t] \in {"done_ok", "done_failed"} =>
            /\ Contains(records, written[t])
            /\ Contains(disk_records, written[t])

\* C4: the rollback after a failed move removes exactly the record the task
\* appended when that record was new, and removes nothing, leaving the list
\* as it is, when the task updated an existing entry in place.
C4_RollbackRemovesOwnOrNothing ==
    [][\A t \in Tasks :
          Rollback(t) =>
              IF existing_record[t]
              THEN records' = records
              ELSE /\ Contains(records, written[t])
                   /\ records' = PopOwn(records, t)]_vars

\* C27: whenever a rollback removes a record, the record removed is the one
\* this download appended, and the records that other downloads appended in
\* the meantime stay in the manifest.
C27_RemovedRecordIsOwn ==
    [][\A t \in Tasks :
          (Rollback(t) /\ Len(records') < Len(records)) =>
              /\ records[Len(records)].video_id = t
              /\ \A u \in Tasks \ {t} :
                    Contains(records, written[u]) => Contains(records', written[u])]_vars

\* The file of task t is at its final path: its move succeeded.
FileAtFinalPath(t) == dpc[t] = "done_ok"

\* C28: once a download has finished (by success, failure or rollback), a
\* record of its video with status success and file_available = true is in
\* the manifest, in memory or on disk, only if the file is at its final path.
C28_SuccessRecordHasFile ==
    \A t \in Tasks :
        dpc[t] \in {"done_ok", "done_failed", "rolled_back"} =>
            \A recs \in {records, disk_records} :
                \A i \in 1..Len(recs) :
                    (/\ recs[i].video_id = t
                     /\ recs[i].status = "success"
                     /\ recs[i].file_available) => FileAtFinalPath(t)

\* C5: every record the download phase builds, on success and on failure,
\* carries every field of the record schema.
C5_EveryFieldPresent ==
    \A rec \in created : SchemaFields \subseteq DOMAIN rec

\* ------------------------------------------------------------------------
\* Filter phase restricted to a video_ids subset (partial update)
\* ------------------------------------------------------------------------

\* Longest manifest the filter is run on.
MaxRecords == 3

\* "" stands for a record whose video_id is missing.
VideoIds == {"a", "b"}

\* Manifest records as the filter sees them.  Two records with the same
\* video_id may differ (status), so duplicates can be told apart.
UnclassifiedPool ==
    {[video_id |-> v, status |-> st, classified |-> FALSE,
      containing_children_voice |-> "None", classification_timestamp |-> "None",
      language_folder |-> "unknown", file_available |-> TRUE] :
        v \in VideoIds \cup {""}, st \in {"success", "failed"}}

ClassifiedPool ==
    {[video_id |-> v, status |-> "success", classified |-> TRUE,
      containing_children_voice |-> ccv,
      classification_timestamp |-> IF ccv = "None" THEN "None" ELSE "ts",
      language_folder |-> "unknown", file_available |-> TRUE] :
        v \in VideoIds, ccv \in {"None", "True"}}

RecordPool == UnclassifiedPool \cup ClassifiedPool

RECURSIVE SeqsUpTo(_, _)
SeqsUpTo(S, n) ==
    IF n = 0 THEN {<<>>}
    ELSE LET shorter == SeqsUpTo(S, n - 1) IN
         shorter \cup {Append(q, x) : q \in {r \in shorter : Len(r) = n - 1}, x \in S}

\* A move that takes no notice of a source file that is gone.
MoveUnguarded(r, gone) ==
    [r EXCEPT !.language_folder = "vi", !.file_available = TRUE]

\* The file of a classified record is moved into its language folder; a
\* source file that is gone downgrades the record to file_available = False.
MoveToLanguageFolder(r, gone) ==
    IF r.video_id \in gone
    THEN [r EXCEPT !.file_available = FALSE]
    ELSE [r EXCEPT !.language_folder = "vi", !.file_available = TRUE]

\* The filter loop over the manifest: builds records_to_keep.
RECURSIVE RecordsToKeep(_, _, _)
RecordsToKeep(recs, vids, gone) ==
    IF recs = <<>> THEN <<>>
    ELSE LET r == Head(recs)
             rest == RecordsToKeep(Tail(recs), vids, gone)
         IN IF r.video_id \notin vids
            THEN rest
            ELSE IF ~r.classified
            THEN IF r.video_id = "" THEN rest ELSE <<r>> \o rest
            ELSE IF r.containing_children_voice = "None"
                    \/ r.classification_timestamp = "None"
            THEN <<[r EXCEPT !.file_available = FALSE]>> \o rest
            ELSE <<MoveToLanguageFolder(r, gone)>> \o rest

\* for record in recs: if video_id and video_id not in seen and video_id
\* not in excluded: append, seen.add(video_id).  Returns <<list, seen>>.
RECURSIVE AddUnseen(_, _, _, _)
AddUnseen(recs, acc, seen, excluded) ==
    IF recs = <<>> THEN <<acc, seen>>
    ELSE LET r == Head(recs) IN
         IF r.video_id # "" /\ r.video_id \notin seen /\ r.video_id \notin excluded
         THEN AddUnseen(Tail(recs), Append(acc, r), seen \cup {r.video_id}, excluded)
         ELSE AddUnseen(Tail(recs), acc, seen, excluded)

\* Remove duplicate entries from records_to_keep: the first of each video_id.
Dedup(recs) == AddUnseen(recs, <<>>, {}, {})[1]

\* if video_ids is not None: the processed records, then the non-processed
\* records of all_records.
FinalRecords(recs, vids, gone) ==
    LET unique_records == Dedup(RecordsToKeep(recs, vids, gone))
        processed_video_ids == vids
        first == AddUnseen(unique_records, <<>>, {}, {})
    IN AddUnseen(recs, first[1], first[2], processed_video_ids)[1]

FilterAtRest ==
    /\ all_records = <<>>
    /\ video_ids = {}
    /\ final_records = <<>>
    /\ fpc = "loaded"

FilterStart ==
    /\ all_records \in SeqsUpTo(RecordPool, MaxRecords)
    /\ video_ids \in SUBSET VideoIds
    /\ final_records = <<>>
    /\ fpc = "loaded"

\* run_filtering_phase(video_ids=...): filter, merge, save the manifest.
RunFilter ==
    /\ fpc = "loaded"
    /\ \E gone \in SUBSET VideoIds :
        final_records' = FinalRecords(all_records, video_ids, gone)
    /\ fpc' = "filtered"
    /\ UNCHANGED <<all_records, video_ids>>
    /\ UNCHANGED notFilter

\* The next run loads the manifest the filter saved.
LoadFiltered ==
    /\ fpc = "filtered"
    /\ all_records' = final_records
    /\ \E vids \in SUBSET VideoIds : video_ids' = vids
    /\ final_records' = <<>>
    /\ fpc' = "loaded"
    /\ UNCHANGED notFilter

FilterStep == RunFilter \/ LoadFiltered

Count(recs, r) == Cardinality({i \in 1..Len(recs) : recs[i] = r})
CountId(recs, v) == Cardinality({i \in 1..Len(recs) : recs[i].video_id = v})

\* C6: after a filter run restricted to video_ids, every record that is not
\* in video_ids and is not classified is in the saved manifest, unchanged,
\* as many times as it was in the loaded one.
C6_OutsideSubsetUntouched ==
    fpc = "filtered" =>
        \A i \in 1..Len(all_records) :
            LET r == all_records[i] IN
            (r.video_id \notin video_ids /\ ~r.classified) =>
                Count(final_records, r) >= Count(all_records, r)

\* C7: the filter's deduplication removes no record whose classified flag is
\* false, and every record it removes has the video_id of a processed
\* (classified) record that stays in the manifest.
C7_DedupKeepsUnclassified ==
    fpc = "filtered" =>
        \A i \in 1..Len(all_records) :
            LET r == all_records[i] IN
            r.video_id # "" =>
                /\ ~r.classified => Count(final_records, r) >= Count(all_records, r)
                /\ CountId(final_records, r.video_id) < CountId(all_records, r.video_id)
                    => \E j \in 1..Len(final_records) :
                            /\ final_records[j].video_id = r.video_id
                            /\ final_records[j].classified

\* The records the filter moves: in the processed subset, classified with
\* both classification fields, and the first record of their video.
ToMove(recs, vids) ==
    {i \in 1..Len(recs) :
        /\ recs[i].video_id \in vids
        /\ recs[i].classified
        /\ recs[i].containing_children_voice # "None"
        /\ recs[i].classification_timestamp # "None"
        /\ \A j \in 1..(i - 1) : recs[j].video_id # recs[i].video_id}

\* C31: when the source files of the videos in gone have disappeared by the
\* time of the move, the filter run saves each of their records with
\* file_available = false and not moved, and every other record it had to
\* move, before or after them in the manifest, is moved: the pass is not
\* aborted.
C31_VanishedSourceDowngraded ==
    [][\A gone \in SUBSET VideoIds :
          (/\ fpc = "loaded"
           /\ fpc' = "filtered"
           /\ final_records' = FinalRecords(all_records, video_ids, gone)) =>
              \A i \in ToMove(all_records, video_ids) :
                  LET r == all_records[i] IN
                  IF r.video_id \in gone
                  THEN Contains(final_records', [r EXCEPT !.file_available = FALSE])
                  ELSE Contains(final_records',
                                [r EXCEPT !.language_folder = "vi",
                                          !.file_available = TRUE])]_vars

\* C31 witness: the source of the first record was gone and the record is
\* saved unavailable and not moved; the record after it has been moved.
C31_Witness ==
    /\ fpc = "filtered"
    /\ Len(final_records) >= 2
    /\ final_records[1].classified
    /\ final_records[1].containing_children_voice = "True"
    /\ ~final_records[1].file_available
    /\ final_records[1].language_folder = "unknown"
    /\ final_records[2].language_folder = "vi"
    /\ final_records[2].file_available

\* if containing_children_voice is None or classification_timestamp is None
IncompleteClassification(r) ==
    /\ r.classified
    /\ \/ r.containing_children_voice = "None"
       \/ r.classification_timestamp = "None"

\* A record waits for analysis while its classified flag is false; the
\* analysis sets the flag together with the classification fields.
AwaitingAnalysis(r) == ~r.classified

\* C30: after a filter run, a record of the processed subset that is marked
\* classified but lacks containing_children_voice or
\* classification_timestamp has not been moved and is waiting for analysis,
\* so that a later analyze pass classifies it again.
C30_IncompleteRequeued ==
    fpc = "filtered" =>
        \A j \in 1..Len(final_records) :
            LET r == final_records[j] IN
            (/\ r.video_id \in video_ids
             /\ \/ r.containing_children_voice = "None"
                \/ r.classification_timestamp = "None") =>
                /\ r.language_folder = "unknown"
                /\ AwaitingAnalysis(r)

\* C30, the part about the move: a record with an incomplete classification
\* stays in the manifest and is never moved into a language folder.
C30_IncompleteNotMoved ==
    fpc = "filtered" =>
        /\ \A j \in 1..Len(final_records) :
              IncompleteClassification(final_records[j]) =>
                  final_records[j].language_folder = "unknown"
        /\ \A i \in 1..Len(all_records) :
              IncompleteClassification(all_records[i]) =>
                  CountId(final_records, all_records[i].video_id) > 0

\* ------------------------------------------------------------------------
\* The batch cycle: download -> analyze -> filter -> upload, with re-runs
\* ------------------------------------------------------------------------

\* Number of discovered videos.
NumVideos == 2
Videos == 1..NumVideos

\* Most times one file is sent over all runs.
MaxSends == 2

NoManifestRecord ==
    [status |-> "none", classified |-> FALSE, containing_children_voice |-> "None",
     file_available |-> FALSE, uploaded |-> FALSE, language_folder |-> "unknown"]

\* A workflow that goes from analysis straight to upload.
NextPhaseSkippingFilter(ph) ==
    CASE ph = "download" -> "analyze"
      [] ph = "analyze" -> "upload"
      [] ph = "filter" -> "upload"
      [] OTHER -> "idle"

\* Phase 2 download, phase 3 analysis, phase 4 filtering, phase 5 upload.
NextPhase(ph) ==
    CASE ph = "download" -> "analyze"
      [] ph = "analyze" -> "filter"
      [] ph = "filter" -> "upload"
      [] OTHER -> "idle"

\* An upload selection that does not look at the uploaded flag.
UploadableAgain(r) ==
    /\ r.classified
    /\ r.containing_children_voice = "True"
    /\ r.file_available

\* Requirements for upload: classified, containing_children_voice,
\* file_available, and uploaded == false.
Uploadable(r) ==
    /\ r.classified
    /\ r.containing_children_voice = "True"
    /\ r.file_available
    /\ ~r.uploaded

\* The records a phase works on when it starts.
Eligible(ph, recs) ==
    CASE ph = "download" -> {v \in Videos : recs[v].status # "success"}
      [] ph = "analyze" -> {v \in Videos : /\ recs[v].status = "success"
                                           /\ ~recs[v].classified}
      [] ph = "filter" -> {v \in Videos : recs[v].classified}
      [] ph = "upload" -> {v \in Videos : Uploadable(recs[v])}
      [] OTHER -> {}

PipeAtRest ==
    /\ manifest = [v \in Videos |-> NoManifestRecord]
    /\ phase = "idle"
    /\ queue = {}
    /\ succeeded = {}
    /\ analyzed = [v \in Videos |-> FALSE]
    /\ filtered = [v \in Videos |-> FALSE]
    /\ send_count = [v \in Videos |-> 0]

\* The workflow (or a re-run of it) starts its batch with the download phase.
StartRun ==
    /\ phase = "idle"
    /\ phase' = "download"
    /\ queue' = Eligible("download", manifest)
    /\ succeeded' = {}
    /\ UNCHANGED <<manifest, analyzed, filtered, send_count>>
    /\ UNCHANGED notPipe

\* One download: the success record or the failed record is written.
DownloadVideo(v) ==
    /\ phase = "download"
    /\ v \in queue
    /\ \E ok \in BOOLEAN :
        manifest' = [manifest EXCEPT ![v] =
                  [NoManifestRecord EXCEPT !.status = IF ok THEN "success" ELSE "failed",
                                           !.file_available = ok]]
    /\ queue' = queue \ {v}
    /\ UNCHANGED <<phase, succeeded, analyzed, filtered, send_count>>
    /\ UNCHANGED notPipe

\* One analysis: record['classified'] = True with the classifier's verdict,
\* or the analysis of this file fails and the record stays unclassified.
AnalyzeRecord(v) ==
    /\ phase = "analyze"
    /\ v \in queue
    /\ \/ \E child \in {"True", "False"} :
            /\ manifest' = [manifest EXCEPT ![v].classified = TRUE,
                                  ![v].containing_children_voice = child]
            /\ analyzed' = [analyzed EXCEPT ![v] = TRUE]
       \/ UNCHANGED <<manifest, analyzed>>
    /\ queue' = queue \ {v}
    /\ UNCHANGED <<phase, succeeded, filtered, send_count>>
    /\ UNCHANGED notPipe

\* One filtering: the file is moved to its folder, or it has disappeared and
\* the record is downgraded to file_available = False.
FilterRecord(v) ==
    /\ phase = "filter"
    /\ v \in queue
    /\ \E gone \in BOOLEAN :
        manifest' = [manifest EXCEPT ![v] =
                  IF gone \/ ~manifest[v].file_available
                  THEN [manifest[v] EXCEPT !.file_available = FALSE]
                  ELSE [manifest[v] EXCEPT !.language_folder =
                          IF manifest[v].containing_children_voice = "True"
                          THEN "vi" ELSE "unclassified"]]
    /\ filtered' = [filtered EXCEPT ![v] = TRUE]
    /\ queue' = queue \ {v}
    /\ UNCHANGED <<phase, succeeded, analyzed, send_count>>
    /\ UNCHANGED notPipe

\* One transfer to the upload server, which succeeds or fails.
UploadFile(v) ==
    /\ phase = "upload"
    /\ v \in queue
    /\ send_count[v] < MaxSends
    /\ send_count' = [send_count EXCEPT ![v] = @ + 1]
    /\ \E ok \in BOOLEAN :
        succeeded' = IF ok THEN succeeded \cup {v} ELSE succeeded
    /\ queue' = queue \ {v}
    /\ UNCHANGED <<manifest, phase, analyzed, filtered>>
    /\ UNCHANGED notPipe

\* The phase has gone through its records: the upload phase sets
\* uploaded: true for the files it transferred; the next phase starts.
EndPhase ==
    /\ phase \in {"download", "analyze", "filter", "upload"}
    /\ queue = {} \/ (phase = "upload" /\ \A v \in queue : send_count[v] >= MaxSends)
    /\ manifest' = IF phase = "upload"
              THEN [v \in Videos |->
                      IF v \in succeeded THEN [manifest[v] EXCEPT !.uploaded = TRUE]
                      ELSE manifest[v]]
              ELSE manifest
    /\ phase' = NextPhase(phase)
    /\ queue' = Eligible(NextPhase(phase), manifest')
    /\ succeeded' = {}
    /\ UNCHANGED <<analyzed, filtered, send_count>>
    /\ UNCHANGED notPipe

\* The process dies; the manifest stays as it was last saved.
Crash ==
    /\ phase # "idle"
    /\ phase' = "idle"
    /\ queue' = {}
    /\ succeeded' = {}
    /\ UNCHANGED <<manifest, analyzed, filtered, send_count>>
    /\ UNCHANGED notPipe

PipeStep ==
    \/ StartRun
    \/ \E v \in Videos :
        \/ DownloadVideo(v)
        \/ AnalyzeRecord(v)
        \/ FilterRecord(v)
        \/ UploadFile(v)
    \/ EndPhase
    \/ Crash

\* C8: whenever the upload phase sends a file, in a first run or a re-run,
\* the record of that file has uploaded = false in the manifest; a record
\* with uploaded = true is never sent again.
C8_OnlyNotUploadedSent ==
    [][\A v \in Videos : UploadFile(v) => ~manifest[v].uploaded]_vars

\* C8 witness: a re-run sent the file of one record a second time (its first
\* transfer had failed) and did not send the file of an uploaded record.
C8_Witness ==
    \E v, w \in Videos :
        /\ send_count[v] = 2 /\ ~manifest[v].uploaded
        /\ send_count[w] = 1 /\ manifest[w].uploaded
        /\ phase = "upload" /\ queue = {}

BatchSize == 20

\* Number of search results one discovery looks at.
MaxResults == 45

\* A trigger that fires on every other multiple of the batch size only.
BatchDueEveryOther(n) == n % (2 * BatchSize) = 0

\* IF collected_urls % 20 == 0: trigger batch_callback()
BatchDue(n) == n % BatchSize = 0

\* A handler that raises the exception again: the search phase is over.
Reraised(pc) == "done"

\* except Exception as e: output.error(...) and nothing else: the search
\* phase goes on where it was.
AfterRaise(pc) == IF pc = "final_callback" THEN "done" ELSE "search"

SearchAtRest ==
    /\ search_pc = "search"
    /\ scanned = 0
    /\ current_url_count = 0
    /\ last_batch_count = 0
    /\ handed = 0
    /\ periodic = 0
    /\ final_runs = 0

\* A result whose video_id is not in existing_urls is accepted: the URL is
\* added to discovered_urls.txt, and the batch callback is triggered when due.
AcceptUrl ==
    /\ search_pc = "search"
    /\ scanned < MaxResults
    /\ scanned' = scanned + 1
    /\ current_url_count' = current_url_count + 1
    /\ IF BatchDue(current_url_count + 1)
       THEN /\ search_pc' = "batch_callback"
            /\ periodic' = periodic + 1
            /\ handed' = current_url_count + 1
       ELSE UNCHANGED <<search_pc, periodic, handed>>
    /\ UNCHANGED <<last_batch_count, final_runs>>
    /\ UNCHANGED notSearch

\* A result that is already known, or is not accepted, adds nothing.
SkipUrl ==
    /\ search_pc = "search"
    /\ scanned < MaxResults
    /\ scanned' = scanned + 1
    /\ UNCHANGED <<search_pc, current_url_count, last_batch_count, handed,
                   periodic, final_runs>>
    /\ UNCHANGED notSearch

\* await batch_callback(include_upload=True) returns:
\* last_batch_count = current_url_count
BatchCallbackReturns ==
    /\ search_pc \in {"batch_callback", "final_callback"}
    /\ last_batch_count' = current_url_count
    /\ search_pc' = IF search_pc = "final_callback" THEN "done" ELSE "search"
    /\ UNCHANGED <<scanned, current_url_count, handed, periodic, final_runs>>
    /\ UNCHANGED notSearch

\* The callback raises: the error is logged, nothing is re-raised, and the
\* search goes on.
BatchCallbackRaises ==
    /\ search_pc \in {"batch_callback", "final_callback"}
    /\ search_pc' = AfterRaise(search_pc)
    /\ UNCHANGED <<scanned, current_url_count, last_batch_count, handed,
                   periodic, final_runs>>
    /\ UNCHANGED notSearch

\* At the end of phase 1 a final batch processes any remaining URLs.
EndDiscovery ==
    /\ search_pc = "search"
    /\ search_pc' = "final_callback"
    /\ final_runs' = final_runs + 1
    /\ handed' = current_url_count
    /\ UNCHANGED <<scanned, current_url_count, last_batch_count, periodic>>
    /\ UNCHANGED notSearch

SearchStep ==
    \/ AcceptUrl
    \/ SkipUrl
    \/ BatchCallbackReturns
    \/ BatchCallbackRaises
    \/ EndDiscovery

\* C10: the batch callback has been triggered once for every 20 accepted
\* URLs, and, when discovery has ended, once more for the remainder, so that
\* every accepted URL has been handed to a phases 2-5 batch.
C10_EveryUrlHandedToABatch ==
    /\ search_pc \in {"search", "batch_callback"} =>
          /\ periodic = current_url_count \div BatchSize
          /\ handed = periodic * BatchSize
    /\ search_pc \in {"final_callback", "done"} =>
          /\ periodic = current_url_count \div BatchSize
          /\ final_runs = 1
          /\ handed = current_url_count

\* C29 as stated: while the phases 2-5 of a batch are running, discovery can
\* accept a further URL.
C29_AcceptsWhileBatchRuns ==
    (search_pc = "batch_callback" /\ scanned < MaxResults) => ENABLED AcceptUrl

\* C29 amended: discovery waits for the batch callback it awaits (no URL is
\* accepted while the phases 2-5 of the batch run), and when the callback is
\* over, whether it returned or raised, discovery is searching again and
\* accepts further URLs.
C29_DiscoveryGoesOnAfterBatch ==
    /\ [][search_pc = "batch_callback" =>
             /\ current_url_count' = current_url_count
             /\ scanned' = scanned
             /\ search_pc' = "search"]_vars
    /\ [](search_pc = "search" /\ scanned < MaxResults => ENABLED AcceptUrl)

\* C29 witness: the callback of the first batch failed (last_batch_count was
\* not advanced) and discovery has accepted five further URLs since.
C29_Witness ==
    /\ search_pc = "search"
    /\ periodic = 1
    /\ last_batch_count = 0
    /\ current_url_count = BatchSize + 5

\* C10 witness: discovery ended with two full batches and a remainder of
\* five URLs, one of the callbacks having failed on the way.
C10_Witness ==
    /\ search_pc = "done"
    /\ current_url_count = 2 * BatchSize + 5
    /\ periodic = 2
    /\ final_runs = 1
    /\ last_batch_count = BatchSize

\* ------------------------------------------------------------------------
\* YouTube API key rotation and the quota-exhaustion poll loop
\* ------------------------------------------------------------------------

\* Number of configured API keys.
NumKeys == 3
ApiKeys == 1..NumKeys

\* poll_interval_seconds: int = 300
PollIntervalS == 300

\* The waited time is tracked up to this many seconds (it saturates there;
\* the loop itself has no limit).
MaxWaitedS == 900

\* A probe that never finds a key available.
ProbeNeverOk(st) == FALSE

\* The minimal-cost probe request succeeds iff the key has quota again.
ProbeOk(st) == st = "ok"

\* The first key with quota, 0 if every key is exhausted.
FirstAvailable(ks) ==
    IF \E k \in ApiKeys : ks[k] = "ok"
    THEN CHOOSE k \in ApiKeys : ks[k] = "ok" /\ \A j \in 1..(k - 1) : ks[j] # "ok"
    ELSE 0

KeysAtRest ==
    /\ key_state = [k \in ApiKeys |-> "ok"]
    /\ api_pc = "searching"
    /\ current_key = 1
    /\ probe_idx = 0
    /\ waited = 0
    /\ resumed_with = 0

\* A search request with the current key is answered "quota exceeded": the
\* crawler rotates to the next key with quota, or, when every key is
\* exhausted, starts polling.
QuotaExceeded ==
    /\ api_pc = "searching"
    /\ LET ks == [key_state EXCEPT ![current_key] = "exhausted"] IN
        /\ key_state' = ks
        /\ IF FirstAvailable(ks) # 0
           THEN /\ current_key' = FirstAvailable(ks)
                /\ UNCHANGED api_pc
           ELSE /\ api_pc' = "waiting"
                /\ UNCHANGED current_key
    /\ waited' = 0
    /\ resumed_with' = 0
    /\ UNCHANGED probe_idx
    /\ UNCHANGED notKeys

\* The quota of a key is renewed (daily reset).
KeyRecovers(k) ==
    /\ key_state[k] = "exhausted"
    /\ key_state' = [key_state EXCEPT ![k] = "ok"]
    /\ UNCHANGED <<api_pc, current_key, probe_idx, waited, resumed_with>>
    /\ UNCHANGED notKeys

\* The poll loop sleeps poll_interval_seconds, then starts a round of probes.
PollSleep ==
    /\ api_pc = "waiting"
    /\ api_pc' = "probing"
    /\ probe_idx' = 1
    /\ waited' = IF waited + PollIntervalS > MaxWaitedS THEN MaxWaitedS
                 ELSE waited + PollIntervalS
    /\ UNCHANGED <<key_state, current_key, resumed_with>>
    /\ UNCHANGED notKeys

\* The next key is probed: the search resumes with it if it is available;
\* after the last key the loop goes back to sleep (heartbeat log).
ProbeKey ==
    /\ api_pc = "probing"
    /\ IF ProbeOk(key_state[probe_idx])
       THEN /\ api_pc' = "searching"
            /\ current_key' = probe_idx
            /\ resumed_with' = probe_idx
            /\ probe_idx' = 0
       ELSE /\ IF probe_idx < NumKeys
               THEN /\ probe_idx' = probe_idx + 1
                    /\ UNCHANGED api_pc
               ELSE /\ probe_idx' = 0
                    /\ api_pc' = "waiting"
            /\ UNCHANGED <<current_key, resumed_with>>
    /\ UNCHANGED <<key_state, waited>>
    /\ UNCHANGED notKeys

KeysStep ==
    \/ QuotaExceeded
    \/ \E k \in ApiKeys : KeyRecovers(k)
    \/ PollSleep
    \/ ProbeKey

\* C11: with every key exhausted the crawler is never stopped, it keeps
\* polling however long it has waited, and once a key is available it
\* eventually searches again, with a key that has quota.
C11_PollsUntilAKeyRecovers ==
    /\ [](api_pc \in {"searching", "waiting", "probing"})
    /\ (api_pc # "searching" /\ \E k \in ApiKeys : key_state[k] = "ok")
          ~> (api_pc = "searching" /\ key_state[current_key] = "ok")

\* C11 witness: after at least three poll intervals with every key
\* exhausted, a later round found key 2 the first available one and the
\* search resumed with it.
C11_Witness ==
    /\ api_pc = "searching"
    /\ waited = MaxWaitedS
    /\ resumed_with = 2
    /\ current_key = 2
    /\ key_state[1] = "exhausted"

\* ------------------------------------------------------------------------
\* Filter phase: the language folder a file is moved to
\* ------------------------------------------------------------------------

\* Most records in one filter pass over language folders.
MaxFolders == 2

\* A language_folder value is a string, kept as its sequence of pieces so
\* that removing separators is something the model computes.
Str(piece) == <<piece>>

LanguageFolderValues ==
    {Str("vi"), Str("en"), Str("unknown"), Str("unclassified"), Str("fr"), <<>>,
     <<"..", "/", "..", "/", "etc">>,
     <<"vi", "/", "..", "/", "..", "/", "x">>,
     <<"..", "vi">>}

\* The records the filter goes through: with a language_folder, or without.
FolderRecords ==
    {[language_folder |-> v] : v \in LanguageFolderValues} \cup {[video_id |-> "a"]}

\* VALID_LANGUAGES = {'vi', 'en', 'unknown', 'unclassified'}
VALID_LANGUAGES == {Str("vi"), Str("en"), Str("unknown"), Str("unclassified")}

\* record.get('language_folder', 'unknown')
GetLanguageFolder(r) ==
    IF "language_folder" \in DOMAIN r THEN r.language_folder ELSE Str("unknown")

\* The sanitization before the fix: .replace('\\', '').replace('/', '')
\* .replace('..', '').strip(), and 'unknown' if nothing is left.
SanitizedFolder(r) ==
    LET kept == SelectSeq(GetLanguageFolder(r), LAMBDA c : c \notin {"\\", "/", ".."})
    IN IF kept = <<>> THEN Str("unknown") ELSE kept

\* if language_folder not in VALID_LANGUAGES: language_folder = 'unknown'
ResolvedFolder(r) ==
    IF GetLanguageFolder(r) \in VALID_LANGUAGES
    THEN GetLanguageFolder(r)
    ELSE Str("unknown")

LangAtRest ==
    /\ folder_records = <<>>
    /\ target_folders = <<>>

LangStart ==
    /\ folder_records \in SeqsUpTo(FolderRecords, MaxFolders)
    /\ target_folders = <<>>

\* The filter handles its next record: the folder the file is moved to.
ResolveNextFolder ==
    /\ Len(target_folders) < Len(folder_records)
    /\ target_folders' =
          Append(target_folders, ResolvedFolder(folder_records[Len(target_folders) + 1]))
    /\ UNCHANGED folder_records
    /\ UNCHANGED notLang

LangStep == ResolveNextFolder

MaxDirs == 3

DirNames == {"workspace", "output", "final_audio"}

\* A path is its anchor ("/" or ".") followed by directories and the file.
ManifestPaths ==
    {<<a>> \o d \o <<"manifest.json">> :
        a \in {"/", "."}, d \in SeqsUpTo(DirNames, MaxDirs)}

\* manifest_file.parents: nearest first, the anchor last.
Parents(path) == [i \in 0..(Len(path) - 2) |-> SubSeq(path, 1, Len(path) - 1 - i)]

NumParents(path) == Len(path) - 1

RootPhases == {"analyze", "filter", "clean"}

Pending == [kind |-> "pending"]

\* output.error("Cannot resolve workspace root ... insufficient depth"); continue
InsufficientDepth == [kind |-> "insufficient_depth"]

\* parents[i] on a path with at most i parents
IndexError == [kind |-> "IndexError"]

Resolved(dir) == [kind |-> "resolved", root |-> dir]

\* workspace_root = path.parents[i], as Python evaluates it
ParentAt(path, i) ==
    IF i \in DOMAIN Parents(path) THEN Resolved(Parents(path)[i]) ELSE IndexError

\* if len(manifest_file.parents) < 3: output.error(...); continue
\* workspace_root = manifest_file.parents[2]
CheckedRoot(path) ==
    IF NumParents(path) < 3 THEN InsufficientDepth ELSE ParentAt(path, 2)

\* workspace_root = manifest_path.parents[2]
CleanRoot(path) == ParentAt(path, 2)

RootAtRest ==
    /\ manifest_file = <<>>
    /\ root_result = [ph \in RootPhases |-> Pending]

RootStart ==
    /\ manifest_file \in ManifestPaths
    /\ root_result = [ph \in RootPhases |-> Pending]

AnalyzeResolveRoot ==
    /\ manifest_file # <<>>
    /\ root_result["analyze"] = Pending
    /\ root_result' = [root_result EXCEPT !["analyze"] = CheckedRoot(manifest_file)]
    /\ UNCHANGED manifest_file
    /\ UNCHANGED notRoot

FilterResolveRoot ==
    /\ manifest_file # <<>>
    /\ root_result["filter"] = Pending
    /\ root_result' = [root_result EXCEPT !["filter"] = CheckedRoot(manifest_file)]
    /\ UNCHANGED manifest_file
    /\ UNCHANGED notRoot

CleanResolveRoot ==
    /\ manifest_file # <<>>
    /\ root_result["clean"] = Pending
    /\ root_result' = [root_result EXCEPT !["clean"] = CleanRoot(manifest_file)]
    /\ UNCHANGED manifest_file
    /\ UNCHANGED notRoot

RootStep == AnalyzeResolveRoot \/ FilterResolveRoot \/ CleanResolveRoot

\* C15: for a manifest path with fewer than three parents, every phase that
\* resolved the workspace root reported insufficient depth: none raised an
\* index error and none resolved to a directory.
C15_InsufficientDepthReported ==
    \A ph \in RootPhases :
        (NumParents(manifest_file) < 3 /\ root_result[ph] # Pending)
            => root_result[ph] = InsufficientDepth

\* The analyze and filter phases alone do report it.
C15_CheckedPhasesReport ==
    \A ph \in {"analyze", "filter"} :
        /\ (NumParents(manifest_file) < 3 /\ root_result[ph] # Pending)
              => root_result[ph] = InsufficientDepth
        /\ (NumParents(manifest_file) >= 3 /\ root_result[ph] # Pending)
              => root_result[ph] = Resolved(Parents(manifest_file)[2])

\* ------------------------------------------------------------------------
\* TikTok crawler: channel discovery triggered by qualifying videos
\* ------------------------------------------------------------------------

\* Most videos one keyword search returns.
MaxSearchVideos == 5

\* Most videos of a channel analysed by one discovery.
MaxChannelVideos == 1

Creators == {"x", "y"}

\* A search result: its author and whether it passes the criteria.
SearchVideos == [author_username : Creators, passes : BOOLEAN]

\* Stands in for the membership test: no channel ever counts as processed.
NeverProcessed(username, processed) == FALSE

\* username in processed_channels
AlreadyProcessed(username, processed) == username \in processed

\* if video_passes_criteria and not is_from_channel_discovery:
\*     if username not in processed_channels:
TriggerDue(video_passes_criteria, is_from_channel_discovery, username, processed) ==
    /\ video_passes_criteria
    /\ ~is_from_channel_discovery
    /\ ~AlreadyProcessed(username, processed)

ChannelAtRest ==
    /\ search_videos = <<>>
    /\ video_pos = 0
    /\ channel_pc = "search"
    /\ channel_current = "none"
    /\ channel_left = 0
    /\ processed_channels = {}
    /\ channels_processed = 0
    /\ discovery_runs = [c \in Creators |-> 0]

ChannelStart ==
    /\ search_videos \in SeqsUpTo(SearchVideos, MaxSearchVideos)
    /\ video_pos = 0
    /\ channel_pc = "search"
    /\ channel_current = "none"
    /\ channel_left = 0
    /\ processed_channels = {}
    /\ channels_processed = 0
    /\ discovery_runs = [c \in Creators |-> 0]

\* A video of the keyword search triggers process_channel_exhaustively.
SearchVideoTriggers ==
    /\ channel_pc = "search"
    /\ video_pos < Len(search_videos)
    /\ LET video == search_videos[video_pos + 1] IN
       /\ TriggerDue(video.passes, FALSE, video.author_username, processed_channels)
       /\ channel_current' = video.author_username
       /\ processed_channels' = processed_channels \cup {video.author_username}
       /\ discovery_runs' =
             [discovery_runs EXCEPT ![video.author_username] = @ + 1]
    /\ video_pos' = video_pos + 1
    /\ channel_pc' = "discovering"
    /\ channel_left' \in 0..MaxChannelVideos
    /\ UNCHANGED <<search_videos, channels_processed>>
    /\ UNCHANGED notChannel

\* A video of the keyword search that fails the criteria, or whose channel
\* was processed already.
SearchVideoPasses ==
    /\ channel_pc = "search"
    /\ video_pos < Len(search_videos)
    /\ LET video == search_videos[video_pos + 1] IN
       ~TriggerDue(video.passes, FALSE, video.author_username, processed_channels)
    /\ video_pos' = video_pos + 1
    /\ UNCHANGED <<search_videos, channel_pc, channel_current, channel_left,
                   processed_channels, channels_processed, discovery_runs>>
    /\ UNCHANGED notChannel

\* A video found by the discovery itself goes through the same test with
\* is_from_channel_discovery set.
ChannelVideo ==
    /\ channel_pc = "discovering"
    /\ channel_left > 0
    /\ \E passes \in BOOLEAN :
          discovery_runs' =
             IF TriggerDue(passes, TRUE, channel_current, processed_channels)
             THEN [discovery_runs EXCEPT ![channel_current] = @ + 1]
             ELSE discovery_runs
    /\ channel_left' = channel_left - 1
    /\ UNCHANGED <<search_videos, video_pos, channel_pc, channel_current,
                   processed_channels, channels_processed>>
    /\ UNCHANGED notChannel

\* The channel is fully analysed: channels_processed += 1.
DiscoveryDone ==
    /\ channel_pc = "discovering"
    /\ channel_left = 0
    /\ channels_processed' = channels_processed + 1
    /\ channel_pc' = "search"
    /\ channel_current' = "none"
    /\ UNCHANGED <<search_videos, video_pos, channel_left, processed_channels,
                   discovery_runs>>
    /\ UNCHANGED notChannel

ChannelStep ==
    SearchVideoTriggers \/ SearchVideoPasses \/ ChannelVideo \/ DiscoveryDone

QualifyingCreators ==
    {search_videos[i].author_username :
        i \in {j \in 1..Len(search_videos) : search_videos[j].passes}}

SearchOver == channel_pc = "search" /\ video_pos = Len(search_videos)

MaxManifest == 3

\* Clean runs in succession.
MaxCleanRuns == 3

NoVideoId == "_none"

\* A manifest entry: its video id (absent in a malformed entry) and the
\* optional fields it has a value for.
CleanRecords ==
    [video_id : {"a", "b", NoVideoId}, filled : SUBSET {"output_path", "classified"}]

Malformed(r) == r.video_id = NoVideoId

Completeness(r) == Cardinality(r.filled)

\* Position of the entry of acc with this video id, 0 if there is none.
PositionOf(acc, id) ==
    IF \E i \in 1..Len(acc) : acc[i].video_id = id
    THEN CHOOSE i \in 1..Len(acc) : acc[i].video_id = id
    ELSE 0

\* One entry joins the consolidated entries: a first entry of its video id
\* is appended, a duplicate replaces the kept one if it is more complete.
Merge(acc, r) ==
    LET i == PositionOf(acc, r.video_id) IN
    IF Malformed(r) THEN acc
    ELSE IF i = 0 THEN Append(acc, r)
    ELSE IF Completeness(r) > Completeness(acc[i]) THEN [acc EXCEPT ![i] = r]
    ELSE acc

RECURSIVE MergeAll(_, _)
MergeAll(acc, m) ==
    IF m = <<>> THEN acc ELSE MergeAll(Merge(acc, Head(m)), Tail(m))

\* Stands in for the consolidation: drops one duplicate entry per pass.
DropOneDuplicate(m) ==
    IF \E i, j \in 1..Len(m) : i < j /\ m[i].video_id = m[j].video_id
    THEN LET j == CHOOSE j \in 1..Len(m) :
                     \E i \in 1..(j - 1) : m[i].video_id = m[j].video_id
         IN SubSeq(m, 1, j - 1) \o SubSeq(m, j + 1, Len(m))
    ELSE m

\* Clean up malformed records and consolidate duplicate manifest entries.
Consolidate(m) == MergeAll(<<>>, m)

CleanAtRest ==
    /\ clean_manifest = <<>>
    /\ clean_input = <<>>
    /\ clean_runs = 0
    /\ first_clean = <<>>

CleanStart ==
    /\ clean_manifest \in SeqsUpTo(CleanRecords, MaxManifest)
    /\ clean_input = clean_manifest
    /\ clean_runs = 0
    /\ first_clean = <<>>

\* One run of the clean phase on the manifest of the previous one.
RunClean ==
    /\ clean_runs < MaxCleanRuns
    /\ clean_manifest' = Consolidate(clean_manifest)
    /\ clean_runs' = clean_runs + 1
    /\ first_clean' = IF clean_runs = 0 THEN clean_manifest' ELSE first_clean
    /\ UNCHANGED clean_input
    /\ UNCHANGED notClean

CleanStep == RunClean

\* C17: after a second run of the clean phase (and any later one) the
\* manifest is the manifest the first run produced.
C17_CleanIdempotent ==
    clean_runs >= 2 => clean_manifest = first_clean

\* C17 witness: a manifest with a malformed entry and two entries of video
\* "a" was cleaned twice; the first run changed it, the second did not.
C17_Witness ==
    /\ clean_runs = 2
    /\ Len(clean_input) = 3
    /\ Malformed(clean_input[1])
    /\ clean_input[2].video_id = "a"
    /\ clean_input[3].video_id = "a"
    /\ Completeness(clean_input[3]) > Completeness(clean_input[2])
    /\ clean_manifest = <<clean_input[3]>>
    /\ first_clean = clean_manifest

\* ------------------------------------------------------------------------
\* Voice classifier: get_voice_classifier and the shared instance
\* ------------------------------------------------------------------------

\* Threads calling get_voice_classifier.
NumThreads == 3

\* Calls each thread makes.
MaxCalls == 2

Threads == 1..NumThreads

NoThread == 0

\* _shared_classifier is None
NoClassifier == 0

\* Stands in for the lock: never held as far as an acquirer can tell.
LockAlwaysFree(holder) == TRUE

\* threading.Lock(): free when no thread holds it
LockFree(holder) == holder = NoThread

ClassifierAtRest ==
    /\ vc_pc = [t \in Threads |-> "idle"]
    /\ vc_calls = [t \in Threads |-> 0]
    /\ vc_lock = NoThread
    /\ shared_classifier = NoClassifier
    /\ vc_local = [t \in Threads |-> NoClassifier]
    /\ constructed = 0
    /\ loaded = 0
    /\ model_version = "none"
    /\ returned_instances = {}

\* get_voice_classifier(config) is called.
CallGetVoiceClassifier(t) ==
    /\ vc_pc[t] \in {"idle", "returned"}
    /\ vc_calls[t] < MaxCalls
    /\ vc_calls' = [vc_calls EXCEPT ![t] = @ + 1]
    /\ vc_pc' = [vc_pc EXCEPT ![t] = "acquiring"]
    /\ vc_local' = [vc_local EXCEPT ![t] = NoClassifier]
    /\ UNCHANGED <<vc_lock, shared_classifier, constructed, loaded, model_version,
                   returned_instances>>
    /\ UNCHANGED notClassifier

\* The thread acquires the lock of _get_or_create_shared_instance.
AcquireClassifierLock(t) ==
    /\ vc_pc[t] = "acquiring"
    /\ LockFree(vc_lock)
    /\ vc_lock' = t
    /\ vc_pc' = [vc_pc EXCEPT ![t] = "checking"]
    /\ UNCHANGED <<vc_calls, shared_classifier, vc_local, constructed, loaded,
                   model_version, returned_instances>>
    /\ UNCHANGED notClassifier

\* _shared_classifier exists: it is the instance to return.
UseCached(t) ==
    /\ vc_pc[t] = "checking"
    /\ shared_classifier # NoClassifier
    /\ vc_local' = [vc_local EXCEPT ![t] = shared_classifier]
    /\ vc_pc' = [vc_pc EXCEPT ![t] = "releasing"]
    /\ UNCHANGED <<vc_calls, vc_lock, shared_classifier, constructed, loaded,
                   model_version, returned_instances>>
    /\ UNCHANGED notClassifier

\* It does not: create the VoiceClassifier instance.
CreateClassifier(t) ==
    /\ vc_pc[t] = "checking"
    /\ shared_classifier = NoClassifier
    /\ constructed' = constructed + 1
    /\ vc_local' = [vc_local EXCEPT ![t] = constructed + 1]
    /\ vc_pc' = [vc_pc EXCEPT ![t] = "loading"]
    /\ UNCHANGED <<vc_calls, vc_lock, shared_classifier, loaded, model_version,
                   returned_instances>>
    /\ UNCHANGED notClassifier

\* _load_model_and_processor(): the wav2vec2 model, or the fallback when
\* its dependencies are missing.
LoadModel(t) ==
    /\ vc_pc[t] = "loading"
    /\ loaded' = loaded + 1
    /\ model_version' \in {"wav2vec2", "fallback-1.0.0"}
    /\ vc_pc' = [vc_pc EXCEPT ![t] = "caching"]
    /\ UNCHANGED <<vc_calls, vc_lock, shared_classifier, vc_local, constructed,
                   returned_instances>>
    /\ UNCHANGED notClassifier

\* Cache in _shared_classifier.
CacheClassifier(t) ==
    /\ vc_pc[t] = "caching"
    /\ shared_classifier' = vc_local[t]
    /\ vc_pc' = [vc_pc EXCEPT ![t] = "releasing"]
    /\ UNCHANGED <<vc_calls, vc_lock, vc_local, constructed, loaded, model_version,
                   returned_instances>>
    /\ UNCHANGED notClassifier

\* Release the lock and return the instance.
ReturnClassifier(t) ==
    /\ vc_pc[t] = "releasing"
    /\ vc_lock' = IF vc_lock = t THEN NoThread ELSE vc_lock
    /\ returned_instances' = returned_instances \cup {vc_local[t]}
    /\ vc_pc' = [vc_pc EXCEPT ![t] = "returned"]
    /\ UNCHANGED <<vc_calls, shared_classifier, vc_local, constructed, loaded,
                   model_version>>
    /\ UNCHANGED notClassifier

ClassifierStep ==
    \E t \in Threads :
        \/ CallGetVoiceClassifier(t)
        \/ AcquireClassifierLock(t)
        \/ UseCached(t)
        \/ CreateClassifier(t)
        \/ LoadModel(t)
        \/ CacheClassifier(t)
        \/ ReturnClassifier(t)

\* C18: under every interleaving of the calls, the classifier is
\* constructed at most once, its model is loaded at most once, and every
\* call that returned, returned the one shared instance.
C18_OneSharedClassifier ==
    /\ constructed <= 1
    /\ loaded <= 1
    /\ Cardinality(returned_instances) <= 1
    /\ returned_instances \subseteq {shared_classifier} \ {NoClassifier}

\* C18 witness: every thread has returned from all its calls with the shared
\* instance, which was constructed and loaded once.
C18_Witness ==
    /\ \A t \in Threads : vc_pc[t] = "returned" /\ vc_calls[t] = MaxCalls
    /\ returned_instances = {shared_classifier}
    /\ constructed = 1
    /\ loaded = 1

\* ------------------------------------------------------------------------
\* Audio classification: classify_age_group
\* ------------------------------------------------------------------------

\* Probabilities and the normalized age are counted in hundredths.
MaxHundredths == 100

Hundredths == 0..MaxHundredths

\* self.child_threshold = 0.4
child_threshold == 40

\* self.age_threshold = 0.25 (25 years)
age_threshold == 25

\* The model's outputs: gender_probs is (female, male, child).
GenderProbs ==
    {<<f, MaxHundredths - c - f, c>> : c \in Hundredths, f \in {0, MaxHundredths}} \cap
        (Hundredths \X Hundredths \X Hundredths)

NoVoiceResult == [label |-> "none", confidence |-> 0]

\* Stands in for classify_age_group: the probability decides alone.
classify_by_probability(age_norm, probs) ==
    LET child_prob == probs[3] IN
    IF child_prob > child_threshold
    THEN [label |-> "child", confidence |-> child_prob]
    ELSE [label |-> "adult", confidence |-> MaxHundredths - child_prob]

\* def classify_age_group(self, age_normalized, gender_probs)
classify_age_group(age_norm, probs) ==
    LET child_prob == probs[3] IN
    IF child_prob > child_threshold
    THEN [label |-> "child", confidence |-> child_prob]
    ELSE IF age_norm < age_threshold
    THEN [label |-> "child", confidence |-> age_norm]
    ELSE [label |-> "adult", confidence |-> MaxHundredths - child_prob]

VoiceAtRest ==
    /\ age_normalized = 0
    /\ gender_probs = <<0, 0, 0>>
    /\ voice_result = NoVoiceResult

VoiceStart ==
    /\ age_normalized \in Hundredths
    /\ gender_probs \in GenderProbs
    /\ voice_result = NoVoiceResult

ClassifyVoice ==
    /\ gender_probs # <<0, 0, 0>>
    /\ voice_result = NoVoiceResult
    /\ voice_result' = classify_age_group(age_normalized, gender_probs)
    /\ UNCHANGED <<age_normalized, gender_probs>>
    /\ UNCHANGED notVoice

VoiceStep == ClassifyVoice

NumBatchVideos == 3

\* self.config.max_concurrent_downloads
MaxConcurrentDownloads == 2

BatchVideos == 1..NumBatchVideos

NoOutcome == [kind |-> "none"]

\* What download_video_audio hands back: a DownloadResult, or an exception.
ResultOutcome(v, ok) == [kind |-> "DownloadResult", video_id |-> v, success |-> ok]

ExceptionOutcome(v) == [kind |-> "Exception", video_id |-> v]

\* Stands in for the semaphore: a slot is free whatever the count.
SlotAlwaysFree(slots) == TRUE

\* asyncio.Semaphore: a task enters when the count is above zero.
SlotFree(slots) == slots > 0

\* gather without return_exceptions: the first exception is raised to the
\* caller of gather.
GatherRaises(outcome) == outcome.kind = "Exception"

\* asyncio.gather(*tasks, return_exceptions=True): an exception is kept as
\* the result of its task and gather goes on waiting for the others.
GatherAborts(outcome) == FALSE

\* An exception among the results is converted to a DownloadResult.
ToDownloadResult(outcome) ==
    IF outcome.kind = "Exception"
    THEN ResultOutcome(outcome.video_id, FALSE)
    ELSE outcome

BatchAtRest ==
    /\ batch_videos = {}
    /\ task_pc = [v \in BatchVideos |-> "none"]
    /\ task_outcome = [v \in BatchVideos |-> NoOutcome]
    /\ semaphore = MaxConcurrentDownloads
    /\ batch_pc = "idle"
    /\ batch_results = <<>>
    /\ temp_artifacts = {}

\* tasks = [download_with_semaphore(video) for video in videos]
BatchStart ==
    /\ batch_videos \in {1..n : n \in BatchVideos}
    /\ task_pc = [v \in BatchVideos |-> IF v \in batch_videos THEN "waiting" ELSE "none"]
    /\ task_outcome = [v \in BatchVideos |-> NoOutcome]
    /\ semaphore = MaxConcurrentDownloads
    /\ batch_pc = "gathering"
    /\ batch_results = <<>>
    /\ temp_artifacts = {}

\* async with semaphore: the task gets a slot and starts its download.
TaskStart(v) ==
    /\ batch_pc = "gathering"
    /\ task_pc[v] = "waiting"
    /\ SlotFree(semaphore)
    /\ semaphore' = semaphore - 1
    /\ task_pc' = [task_pc EXCEPT ![v] = "downloading"]
    /\ temp_artifacts' = temp_artifacts \cup {v}
    /\ UNCHANGED <<batch_videos, task_outcome, batch_pc, batch_results>>
    /\ UNCHANGED notBatch

\* download_video_audio returns its DownloadResult; the slot is released.
\* The downloaded file has gone to its output path, or the download gave up
\* and left nothing.
TaskReturns(v) ==
    /\ batch_pc = "gathering"
    /\ task_pc[v] = "downloading"
    /\ \E ok \in BOOLEAN :
          task_outcome' = [task_outcome EXCEPT ![v] = ResultOutcome(v, ok)]
    /\ semaphore' = semaphore + 1
    /\ task_pc' = [task_pc EXCEPT ![v] = "done"]
    /\ temp_artifacts' = temp_artifacts \ {v}
    /\ UNCHANGED <<batch_videos, batch_pc, batch_results>>
    /\ UNCHANGED notBatch

\* download_video_audio raises; the context manager releases the slot.  The
\* exception becomes the result of the task and triggers no cleanup: what
\* the download had written is still there unless the download removed it
\* before it raised.
TaskRaises(v) ==
    /\ batch_pc = "gathering"
    /\ task_pc[v] = "downloading"
    /\ task_outcome' = [task_outcome EXCEPT ![v] = ExceptionOutcome(v)]
    /\ semaphore' = semaphore + 1
    /\ task_pc' = [task_pc EXCEPT ![v] = "done"]
    /\ batch_pc' = IF GatherAborts(ExceptionOutcome(v)) THEN "aborted" ELSE batch_pc
    /\ \E removed \in BOOLEAN :
          temp_artifacts' = IF removed THEN temp_artifacts \ {v} ELSE temp_artifacts
    /\ UNCHANGED <<batch_videos, batch_results>>
    /\ UNCHANGED notBatch

\* results = await asyncio.gather(...): every task is done, the results are
\* in the order of the videos.
GatherDone ==
    /\ batch_pc = "gathering"
    /\ \A v \in batch_videos : task_pc[v] = "done"
    /\ batch_results' = [i \in 1..Cardinality(batch_videos) |-> task_outcome[i]]
    /\ batch_pc' = "gathered"
    /\ UNCHANGED <<batch_videos, task_pc, task_outcome, semaphore, temp_artifacts>>
    /\ UNCHANGED notBatch

\* The batch returns, exceptions converted to DownloadResult objects.
BatchReturn ==
    /\ batch_pc = "gathered"
    /\ batch_results' =
          [i \in 1..Len(batch_results) |-> ToDownloadResult(batch_results[i])]
    /\ batch_pc' = "returned"
    /\ UNCHANGED <<batch_videos, task_pc, task_outcome, semaphore, temp_artifacts>>
    /\ UNCHANGED notBatch

BatchStep ==
    \/ \E v \in BatchVideos : TaskStart(v) \/ TaskReturns(v) \/ TaskRaises(v)
    \/ GatherDone
    \/ BatchReturn

\* C20: an exception in one download never aborts the batch or keeps
\* another download from running, and the batch returns one DownloadResult
\* per input video, a failed one for a download that raised.
C20_OneResultPerVideo ==
    /\ batch_pc # "aborted"
    /\ semaphore \in 0..MaxConcurrentDownloads
    /\ (\E v \in batch_videos : task_pc[v] = "waiting" /\ batch_pc = "gathering")
          => (semaphore > 0 \/ \E u \in batch_videos : task_pc[u] = "downloading")
    /\ batch_pc = "returned" =>
          /\ Len(batch_results) = Cardinality(batch_videos)
          /\ \A v \in batch_videos :
                /\ task_pc[v] = "done"
                /\ batch_results[v].kind = "DownloadResult"
                /\ batch_results[v].video_id = v
                /\ batch_results[v].success =
                      (task_outcome[v] = ResultOutcome(v, TRUE))

\* C37: when the batch has returned, no temporary download file is left of
\* a download that failed or raised.
C37_NoArtifactAfterBatch ==
    batch_pc = "returned" =>
        \A v \in batch_videos :
            ~batch_results[v].success => v \notin temp_artifacts

InProgress == {v \in batch_videos : task_pc[v] = "downloading"}

\* C21: at every moment of a batch the downloads in progress number at most
\* max_concurrent_downloads, and each of them holds one slot of the
\* semaphore, also after earlier downloads of the batch failed or raised.
C21_AtMostMaxConcurrent ==
    /\ Cardinality(InProgress) <= MaxConcurrentDownloads
    /\ Cardinality(InProgress) = MaxConcurrentDownloads - semaphore

\* C21 witness: the first download raised, and after it as many downloads as
\* the limit allows are in progress at once.
C21_Witness ==
    /\ batch_pc = "gathering"
    /\ task_outcome[1] = ExceptionOutcome(1)
    /\ Cardinality(InProgress) = MaxConcurrentDownloads
    /\ semaphore = 0

\* C20 witness: the first download raised, the two others succeeded, and
\* the batch returned three results, the first one a failure.
C20_Witness ==
    /\ batch_pc = "returned"
    /\ batch_videos = {1, 2, 3}
    /\ task_outcome[1] = ExceptionOutcome(1)
    /\ batch_results = <<ResultOutcome(1, FALSE), ResultOutcome(2, TRUE),
                         ResultOutcome(3, TRUE)>>

\* ------------------------------------------------------------------------
\* Upload API client: one parallel upload batch
\* ------------------------------------------------------------------------

\* Records in the manifest the client reads.
NumUploadRecords == 3

\* Threads of the client's pool.
UploadWorkers == 2

UploadIds == 1..NumUploadRecords

\* The records a manifest holds, as far as the client looks at them.
UploadRecordKinds ==
    {[classified |-> TRUE, children_voice |-> TRUE, uploaded |-> FALSE,
      file_available |-> TRUE],
     [classified |-> TRUE, children_voice |-> FALSE, uploaded |-> FALSE,
      file_available |-> TRUE],
     [classified |-> TRUE, children_voice |-> TRUE, uploaded |-> TRUE,
      file_available |-> TRUE],
     [classified |-> TRUE, children_voice |-> TRUE, uploaded |-> FALSE,
      file_available |-> FALSE]}

\* Find records where classified: true, children_voice: true, uploaded: false
ToUpload(r) == r.classified /\ r.children_voice /\ ~r.uploaded

\* Stands in for the per-file update: the whole batch is marked.
MarkWholeBatch(state) == state \in {"ok", "failed"}

\* set uploaded: true for successfully uploaded files
MarkUploaded(state) == state = "ok"

ClientAtRest ==
    /\ client_manifest = [i \in UploadIds |-> [classified |-> FALSE, children_voice |-> FALSE, uploaded |-> FALSE, file_available |-> FALSE]]
    /\ manifest_read = client_manifest
    /\ transfer = [i \in UploadIds |-> "none"]
    /\ free_workers = UploadWorkers
    /\ client_pc = "idle"

ClientStart ==
    /\ client_manifest \in [UploadIds -> UploadRecordKinds]
    /\ manifest_read = client_manifest
    /\ transfer = [i \in UploadIds |-> "none"]
    /\ free_workers = UploadWorkers
    /\ client_pc = "reading"

\* Read the manifest, select the files to upload, start the session.
SelectFiles ==
    /\ client_pc = "reading"
    /\ transfer' = [i \in UploadIds |->
                       IF ToUpload(client_manifest[i]) THEN "queued" ELSE "none"]
    /\ client_pc' = "uploading"
    /\ UNCHANGED <<client_manifest, manifest_read, free_workers>>
    /\ UNCHANGED notClient

\* A thread of the pool takes a file.
TransferStart(i) ==
    /\ client_pc = "uploading"
    /\ transfer[i] = "queued"
    /\ free_workers > 0
    /\ free_workers' = free_workers - 1
    /\ transfer' = [transfer EXCEPT ![i] = "sending"]
    /\ UNCHANGED <<client_manifest, manifest_read, client_pc>>
    /\ UNCHANGED notClient

TransferSucceeds(i) ==
    /\ client_pc = "uploading"
    /\ transfer[i] = "sending"
    /\ free_workers' = free_workers + 1
    /\ transfer' = [transfer EXCEPT ![i] = "ok"]
    /\ UNCHANGED <<client_manifest, manifest_read, client_pc>>
    /\ UNCHANGED notClient

TransferFails(i) ==
    /\ client_pc = "uploading"
    /\ transfer[i] = "sending"
    /\ free_workers' = free_workers + 1
    /\ transfer' = [transfer EXCEPT ![i] = "failed"]
    /\ UNCHANGED <<client_manifest, manifest_read, client_pc>>
    /\ UNCHANGED notClient

\* Every transfer is over: update the manifest.
UpdateManifest ==
    /\ client_pc = "uploading"
    /\ \A i \in UploadIds : transfer[i] \in {"none", "ok", "failed"}
    /\ client_manifest' =
          [i \in UploadIds |->
              IF MarkUploaded(transfer[i])
              THEN [client_manifest[i] EXCEPT !.uploaded = TRUE]
              ELSE client_manifest[i]]
    /\ client_pc' = "done"
    /\ UNCHANGED <<manifest_read, transfer, free_workers>>
    /\ UNCHANGED notClient

ClientStep ==
    \/ SelectFiles
    \/ \E i \in UploadIds : TransferStart(i) \/ TransferSucceeds(i) \/ TransferFails(i)
    \/ UpdateManifest

\* C22: after a parallel batch, a record of the batch has uploaded = true
\* if and only if its own transfer succeeded, whatever happened to the other
\* transfers; a record outside the batch keeps the value it had.
C22_UploadedIffOwnTransferOk ==
    client_pc = "done" =>
        \A i \in UploadIds :
            /\ ToUpload(manifest_read[i]) =>
                  (client_manifest[i].uploaded <=> transfer[i] = "ok")
            /\ ~ToUpload(manifest_read[i]) =>
                  /\ transfer[i] = "none"
                  /\ client_manifest[i] = manifest_read[i]

\* The requirements for upload of the crawler's upload phase, on a record
\* of the client's manifest.
UploadRequirements(r) ==
    r.classified /\ r.children_voice /\ r.file_available /\ ~r.uploaded

\* C34: the upload client selects a record only if classified,
\* children_voice and file_available are true and uploaded is false; a
\* record with file_available = false is never handed to a transfer.
C34_OnlyAvailableSelected ==
    \A i \in UploadIds :
        transfer[i] # "none" => UploadRequirements(manifest_read[i])

\* C34, without file_available: what the client selects is classified,
\* children's voice and not yet uploaded.
C34_SelectedAreNewChildrenVoice ==
    \A i \in UploadIds :
        transfer[i] # "none" =>
            /\ manifest_read[i].classified
            /\ manifest_read[i].children_voice
            /\ ~manifest_read[i].uploaded

\* C22 witness: in a batch of three files the second transfer failed and the
\* two others succeeded; the first and third records are uploaded, the
\* second is not.
C22_Witness ==
    /\ client_pc = "done"
    /\ transfer = <<"ok", "failed", "ok">>
    /\ client_manifest[1].uploaded
    /\ ~client_manifest[2].uploaded
    /\ client_manifest[3].uploaded

\* ------------------------------------------------------------------------
\* Upload phase: the temporary manifest and its cleanup
\* ------------------------------------------------------------------------

\* Invocations of the upload phase in one run of the crawler.
MaxUploadRuns == 3

\* Most files one invocation uploads.
MaxUploadsPerRun == 2

UploadRuns == 1..MaxUploadRuns

NoFolderId == "None"

\* What upload_main can raise: an Exception, or an exception that is not
\* one (KeyboardInterrupt, SystemExit, a cancellation).
RaisedKinds == {"Exception", "BaseException"}

\* except Exception as e:
CaughtByHandler(kind) == kind = "Exception"

UploadPhaseAtRest ==
    /\ upload_run = 0
    /\ upload_pc = "idle"
    /\ temp_manifests = {}
    /\ temp_manifest_path = 0
    /\ current_upload_folder_id = NoFolderId
    /\ total_uploads = 0
    /\ exit_path = "none"

\* The phase starts and writes its temporary manifest.
UploadPhaseStart ==
    /\ upload_pc \in {"idle", "exited"}
    /\ upload_run < MaxUploadRuns
    /\ upload_run' = upload_run + 1
    /\ temp_manifest_path' = upload_run + 1
    /\ temp_manifests' = temp_manifests \cup {upload_run + 1}
    /\ upload_pc' = "in_try"
    /\ exit_path' = "none"
    /\ UNCHANGED <<current_upload_folder_id, total_uploads>>
    /\ UNCHANGED notUploadPhase

\* _current_upload_folder_id, uploads_count = upload_main(...)
UploadMainReturns ==
    /\ upload_pc = "in_try"
    /\ current_upload_folder_id' = "folder"
    /\ \E uploads_count \in 0..MaxUploadsPerRun :
          total_uploads' = total_uploads + uploads_count
    /\ upload_pc' = "cleanup"
    /\ UNCHANGED <<upload_run, temp_manifests, temp_manifest_path, exit_path>>
    /\ UNCHANGED notUploadPhase

\* upload_main raises: the handler runs for an Exception, anything else
\* leaves the function at once.
UploadMainRaises ==
    /\ upload_pc = "in_try"
    /\ \E kind \in RaisedKinds :
          IF CaughtByHandler(kind)
          THEN /\ upload_pc' = "handler"
               /\ exit_path' = exit_path
          ELSE /\ upload_pc' = "exited"
               /\ exit_path' = "unexpected exception"
    /\ UNCHANGED <<upload_run, temp_manifests, temp_manifest_path,
                   current_upload_folder_id, total_uploads>>
    /\ UNCHANGED notUploadPhase

\* The cleanup at the end of the try block, then the return.
CleanupAfterSuccess ==
    /\ upload_pc = "cleanup"
    /\ temp_manifests' = temp_manifests \ {temp_manifest_path}
    /\ upload_pc' = "exited"
    /\ exit_path' = "success"
    /\ UNCHANGED <<upload_run, temp_manifest_path, current_upload_folder_id,
                   total_uploads>>
    /\ UNCHANGED notUploadPhase

\* The cleanup of the except block, then the return.
CleanupInHandler ==
    /\ upload_pc = "handler"
    /\ temp_manifests' = temp_manifests \ {temp_manifest_path}
    /\ upload_pc' = "exited"
    /\ exit_path' = "handled failure"
    /\ UNCHANGED <<upload_run, temp_manifest_path, current_upload_folder_id,
                   total_uploads>>
    /\ UNCHANGED notUploadPhase

UploadPhaseStep ==
    \/ UploadPhaseStart
    \/ UploadMainReturns
    \/ UploadMainRaises
    \/ CleanupAfterSuccess
    \/ CleanupInHandler

\* C23: when the upload phase has returned or raised, on whichever exit
\* path, no temporary manifest exists.
C23_TempManifestGone ==
    upload_pc = "exited" => temp_manifests = {}

\* On the success path and on the handled-failure path the temporary
\* manifest of the invocation is gone.
C23_HandledPathsClean ==
    (upload_pc = "exited" /\ exit_path \in {"success", "handled failure"})
        => temp_manifest_path \notin temp_manifests

\* ------------------------------------------------------------------------
\* Filtering logic: the folder each analysed file ends in
\* ------------------------------------------------------------------------

\* Discovered videos of one full run.
NumRunVideos == 3

RunVideos == 1..NumRunVideos

\* What a video is: whose voice it holds and its language.
VideoKinds == [child : BOOLEAN, language : {"vi", "en", "fr"}]

NotAnalysed == [classified |-> FALSE, file_available |-> TRUE, folder |-> "raw"]

\* Stands in for the filtering logic: the language alone picks the folder.
FolderByLanguage(containing_children_voice, detected_language) ==
    IF detected_language \in {"vi", "en"} THEN detected_language ELSE "unknown"

\* IF containing_children_voice: vi, en or unknown by detected_language
\* ELSE: unclassified
TargetFolder(containing_children_voice, detected_language) ==
    IF containing_children_voice
    THEN IF detected_language = "vi" THEN "vi"
         ELSE IF detected_language = "en" THEN "en"
         ELSE "unknown"
    ELSE "unclassified"

RunAtRest ==
    /\ run_videos = <<>>
    /\ run_records = <<>>
    /\ run_phase = "idle"

RunStart ==
    /\ run_videos \in [RunVideos -> VideoKinds]
    /\ run_records = <<>>
    /\ run_phase = "download"

\* Download: a record per video, its file in the audio directory.
RunDownload ==
    /\ run_phase = "download"
    /\ run_records' = [v \in RunVideos |-> NotAnalysed]
    /\ run_phase' = "analyze"
    /\ UNCHANGED run_videos
    /\ UNCHANGED notRun

\* Analyze: the classifier and the language detector write their results.
RunAnalyze ==
    /\ run_phase = "analyze"
    /\ run_records' =
          [v \in RunVideos |->
              [classified |-> TRUE, file_available |-> TRUE, folder |-> "raw",
               containing_children_voice |-> run_videos[v].child,
               detected_language |-> run_videos[v].language]]
    /\ run_phase' = "filter"
    /\ UNCHANGED run_videos
    /\ UNCHANGED notRun

\* Filter: the filtering logic on every record; a file may be missing.
RunFilterPass ==
    /\ run_phase = "filter"
    /\ \E missing \in SUBSET RunVideos :
          run_records' =
             [v \in RunVideos |->
                 IF v \in missing
                 THEN [run_records[v] EXCEPT !.file_available = FALSE,
                                             !.folder = "missing"]
                 ELSE [run_records[v] EXCEPT !.folder =
                          TargetFolder(run_records[v].containing_children_voice,
                                       run_records[v].detected_language)]]
    /\ run_phase' = "done"
    /\ UNCHANGED run_videos
    /\ UNCHANGED notRun

RunStep == RunDownload \/ RunAnalyze \/ RunFilterPass

FilesUnder(folder) == {v \in RunVideos : run_records[v].folder = folder}

\* The scenario: a Vietnamese child, a Vietnamese adult, a third video that
\* is not Vietnamese; the run is over and no file went missing.
Scenario ==
    /\ run_phase = "done"
    /\ NumRunVideos = 3
    /\ run_videos[1] = [child |-> TRUE, language |-> "vi"]
    /\ run_videos[2] = [child |-> FALSE, language |-> "vi"]
    /\ run_videos[3].language # "vi"
    /\ FilesUnder("missing") = {}

EnglishChild(v) == run_videos[v] = [child |-> TRUE, language |-> "en"]

ConfigFields == {"search_queries", "target_video_count", "output_dir"}

\* What can be wrong with a field: it is missing or of the wrong type (found
\* by the syntax pass), or its value is not allowed, such as an empty
\* queries array or a non-positive count (found by the semantic pass).
FieldStates == {"ok", "missing", "bad_type", "bad_value"}

\* The path reported for a violation between fields.
CrossReference == "target_video_count/search_queries"

\* Syntax -> Semantic -> Cross-reference
ValidationPasses == <<"syntax", "semantic", "cross-reference">>

\* The violations one pass finds, as field paths.
Found(pass, cfg, cross) ==
    IF pass = "syntax"
    THEN {f \in ConfigFields : cfg[f] \in {"missing", "bad_type"}}
    ELSE IF pass = "semantic"
    THEN {f \in ConfigFields : cfg[f] = "bad_value"}
    ELSE IF cross THEN {CrossReference} ELSE {}

\* Stands in for the accumulation: validation stops at its first error.
StopAtFirst(errors, found) ==
    IF errors # {} THEN errors
    ELSE IF found = {} THEN {}
    ELSE {CHOOSE f \in found : TRUE}

\* Collects all errors before reporting (no early termination)
Accumulate(errors, found) == errors \cup found

\* exit status of the dry-run
ExitCode(errors) == IF errors = {} THEN 0 ELSE 1

ValidationAtRest ==
    /\ config_fields = [f \in ConfigFields |-> "ok"]
    /\ cross_violation = FALSE
    /\ validation_pass = 0
    /\ validation_errors = {}
    /\ reported_fields = {}
    /\ exit_code = -1

ValidationStart ==
    /\ config_fields \in [ConfigFields -> FieldStates]
    /\ cross_violation \in BOOLEAN
    /\ validation_pass = 0
    /\ validation_errors = {}
    /\ reported_fields = {}
    /\ exit_code = -1

\* One pass of the validation over the whole configuration.
ValidationPass ==
    /\ exit_code = -1
    /\ validation_pass < Len(ValidationPasses)
    /\ validation_pass' = validation_pass + 1
    /\ validation_errors' =
          Accumulate(validation_errors,
                     Found(ValidationPasses[validation_pass + 1], config_fields,
                           cross_violation))
    /\ UNCHANGED <<config_fields, cross_violation, reported_fields, exit_code>>
    /\ UNCHANGED notValidation

\* The dry-run reports what the validation collected and exits.
ReportAndExit ==
    /\ exit_code = -1
    /\ validation_pass = Len(ValidationPasses)
    /\ reported_fields' = validation_errors
    /\ exit_code' = ExitCode(validation_errors)
    /\ UNCHANGED <<config_fields, cross_violation, validation_pass, validation_errors>>
    /\ UNCHANGED notValidation

ValidationStep == ValidationPass \/ ReportAndExit

InvalidFields ==
    {f \in ConfigFields : config_fields[f] # "ok"} \cup
        (IF cross_violation THEN {CrossReference} ELSE {})

NumUrls == 2

\* Crashes over the life of the crawl.
MaxCrashes == 2

Urls == 1..NumUrls

NoEntry == [status |-> "none", classified |-> FALSE]

EmptyManifest == [u \in Urls |-> NoEntry]

\* Stands in for the load of a restart: it starts from an empty manifest.
FreshManifest(on_disk) == EmptyManifest

\* A restart loads the persisted manifest.
LoadManifest(on_disk) == on_disk

\* A restart loads the existing URLs of the file.
LoadUrls(file) == file

ResumeAtRest ==
    /\ url_file = {}
    /\ disk_manifest = EmptyManifest
    /\ mem_urls = {}
    /\ mem_manifest = EmptyManifest
    /\ attempted = {}
    /\ resume_phase = "discover"
    /\ crashes = 0

\* Phase 1 finds a URL: it is appended to the URL file at once.
DiscoverUrl(u) ==
    /\ resume_phase = "discover"
    /\ u \notin mem_urls
    /\ mem_urls' = mem_urls \cup {u}
    /\ url_file' = url_file \cup {u}
    /\ UNCHANGED <<disk_manifest, mem_manifest, attempted, resume_phase, crashes>>
    /\ UNCHANGED notResume

\* Phase 2 downloads a URL that has no successful download yet.
ResumeDownload(u) ==
    /\ resume_phase = "download"
    /\ u \in mem_urls
    /\ mem_manifest[u].status # "success"
    /\ u \notin attempted
    /\ attempted' = attempted \cup {u}
    /\ \E ok \in BOOLEAN :
          mem_manifest' = [mem_manifest EXCEPT ![u] =
              [status |-> IF ok THEN "success" ELSE "failed", classified |-> FALSE]]
    /\ UNCHANGED <<url_file, disk_manifest, mem_urls, resume_phase, crashes>>
    /\ UNCHANGED notResume

\* Phase 3 classifies a downloaded record.
ResumeAnalyze(u) ==
    /\ resume_phase = "analyze"
    /\ mem_manifest[u].status = "success"
    /\ ~mem_manifest[u].classified
    /\ mem_manifest' = [mem_manifest EXCEPT ![u].classified = TRUE]
    /\ UNCHANGED <<url_file, disk_manifest, mem_urls, attempted, resume_phase, crashes>>
    /\ UNCHANGED notResume

\* The manifest is saved (atomically: the file is the old or the new one).
PersistManifest ==
    /\ resume_phase \in {"download", "analyze"}
    /\ disk_manifest # mem_manifest
    /\ disk_manifest' = mem_manifest
    /\ UNCHANGED <<url_file, mem_urls, mem_manifest, attempted, resume_phase, crashes>>
    /\ UNCHANGED notResume

\* A phase is over, its progress saved: the next one starts.
ResumeNextPhase ==
    /\ \/ resume_phase = "discover"
       \/ /\ resume_phase = "download"
          /\ \A u \in mem_urls : mem_manifest[u].status = "success" \/ u \in attempted
          /\ disk_manifest = mem_manifest
       \/ /\ resume_phase = "analyze"
          /\ \A u \in Urls : mem_manifest[u].status = "success" => mem_manifest[u].classified
          /\ disk_manifest = mem_manifest
    /\ resume_phase' = CASE resume_phase = "discover" -> "download"
                         [] resume_phase = "download" -> "analyze"
                         [] OTHER -> "finished"
    /\ UNCHANGED <<url_file, disk_manifest, mem_urls, mem_manifest, attempted, crashes>>
    /\ UNCHANGED notResume

\* The process dies at any point of any phase: what is in memory is gone.
ResumeCrash ==
    /\ resume_phase \in {"discover", "download", "analyze"}
    /\ crashes < MaxCrashes
    /\ crashes' = crashes + 1
    /\ resume_phase' = "down"
    /\ mem_urls' = {}
    /\ mem_manifest' = EmptyManifest
    /\ attempted' = {}
    /\ UNCHANGED <<url_file, disk_manifest>>
    /\ UNCHANGED notResume

\* The crawler is started again, or run again after it finished.
Restart ==
    /\ resume_phase \in {"down", "finished"}
    /\ mem_urls' = LoadUrls(url_file)
    /\ attempted' = {}
    /\ mem_manifest' = LoadManifest(disk_manifest)
    /\ resume_phase' = "discover"
    /\ UNCHANGED <<url_file, disk_manifest, crashes>>
    /\ UNCHANGED notResume

ResumeStep ==
    \/ \E u \in Urls : DiscoverUrl(u) \/ ResumeDownload(u) \/ ResumeAnalyze(u)
    \/ PersistManifest
    \/ ResumeNextPhase
    \/ ResumeCrash
    \/ Restart

\* The crawler goes on when it can, and is restarted after a crash; the
\* search is not bound to find anything.
ResumeFairness ==
    /\ WF_vars(Restart /\ resume_phase = "down")
    /\ WF_vars(PersistManifest)
    /\ WF_vars(ResumeNextPhase)
    /\ \A u \in Urls : WF_vars(ResumeDownload(u)) /\ WF_vars(ResumeAnalyze(u))

NumAnalysisVideos == 3

\* Runs of the analysis phase.
MaxAnalysisRuns == 2

AnalysisVideos == 1..NumAnalysisVideos

\* Confidence, in hundredths, of a classification that went through.
SomeConfidence == 80

\* A downloaded record before classification.
Unanalysed ==
    [classified |-> FALSE, containing_children_voice |-> "None",
     voice_analysis_confidence |-> 0, classification_timestamp |-> "None",
     file_available |-> TRUE]

\* What classify_audio_file returns when it caught an exception.
ErrorResult == [is_child_voice |-> FALSE, confidence |-> 0]

VoiceResults ==
    {[is_child_voice |-> b, confidence |-> SomeConfidence] : b \in BOOLEAN}

\* record['classified'] = True and the three classification fields.
UpdateRecord(r, result) ==
    [r EXCEPT !.classified = TRUE,
              !.containing_children_voice =
                  IF result.is_child_voice THEN "True" ELSE "False",
              !.voice_analysis_confidence = result.confidence,
              !.classification_timestamp = "ts"]

\* The audio file of the record is not there: the record is marked
\* unavailable and stays unclassified.
MarkMissing(r) == [r EXCEPT !.file_available = FALSE]

\* A queue of the records that are unclassified and marked available.
QueueOfAvailable(recs) ==
    LET waiting == {v \in AnalysisVideos :
                        AwaitingAnalysis(recs[v]) /\ recs[v].file_available}
    IN [i \in 1..Cardinality(waiting) |->
            CHOOSE v \in waiting : Cardinality({w \in waiting : w < v}) = i - 1]

\* The records a run analyses: the unclassified ones, in manifest order.
AnalysisQueue(recs) ==
    LET waiting == {v \in AnalysisVideos : AwaitingAnalysis(recs[v])}
    IN [i \in 1..Cardinality(waiting) |->
            CHOOSE v \in waiting : Cardinality({w \in waiting : w < v}) = i - 1]

\* An error on one record that ends the run.
AbortBatch(q) == <<>>

\* "Continues with next record."
NextRecord(q) == Tail(q)

\* run_local_analysis after an exception on one record: logs the error
\* details and continues with the next record.
AfterException(q) == NextRecord(q)

InQueue(q) == {q[i] : i \in 1..Len(q)}

AnalysisAtRest ==
    /\ analysis_records = [v \in AnalysisVideos |-> Unanalysed]
    /\ audio_files = {}
    /\ analysis_queue = <<>>
    /\ analysis_pc = "idle"
    /\ analysis_runs = 0
    /\ selected = {}
    /\ handled = {}
    /\ raised = {}

\* Any of the downloaded files may be missing when the analysis starts.
AnalysisStart ==
    /\ analysis_records = [v \in AnalysisVideos |-> Unanalysed]
    /\ audio_files \in SUBSET AnalysisVideos
    /\ analysis_queue = <<>>
    /\ analysis_pc = "idle"
    /\ analysis_runs = 0
    /\ selected = {}
    /\ handled = {}
    /\ raised = {}

\* run_local_analysis starts: the run's queue is built from the manifest.
StartAnalysis ==
    /\ analysis_pc = "idle"
    /\ analysis_runs < MaxAnalysisRuns
    /\ analysis_queue' = AnalysisQueue(analysis_records)
    /\ selected' = InQueue(AnalysisQueue(analysis_records))
    /\ handled' = {}
    /\ raised' = {}
    /\ analysis_pc' = "running"
    /\ UNCHANGED <<analysis_records, audio_files, analysis_runs>>
    /\ UNCHANGED notAnalysis

\* if not output_path.exists(): log warning, continue to next record.
AnalyzeMissing ==
    /\ analysis_pc = "running"
    /\ analysis_queue # <<>>
    /\ LET v == Head(analysis_queue) IN
        /\ v \notin audio_files
        /\ analysis_records' =
              [analysis_records EXCEPT ![v] = MarkMissing(analysis_records[v])]
        /\ handled' = handled \cup {v}
    /\ analysis_queue' = NextRecord(analysis_queue)
    /\ UNCHANGED <<audio_files, analysis_pc, analysis_runs, selected, raised>>
    /\ UNCHANGED notAnalysis

\* classify_audio_file returns the result of the model.
AnalyzeClassifies ==
    /\ analysis_pc = "running"
    /\ analysis_queue # <<>>
    /\ LET v == Head(analysis_queue) IN
        /\ v \in audio_files
        /\ \E result \in VoiceResults :
              analysis_records' =
                  [analysis_records EXCEPT
                      ![v] = UpdateRecord(analysis_records[v], result)]
        /\ handled' = handled \cup {v}
    /\ analysis_queue' = NextRecord(analysis_queue)
    /\ UNCHANGED <<audio_files, analysis_pc, analysis_runs, selected, raised>>
    /\ UNCHANGED notAnalysis

\* classify_audio_file catches an exception, logs the traceback and returns
\* the result with is_child_voice = False and confidence = 0.0.
AnalyzeClassifierRaises ==
    /\ analysis_pc = "running"
    /\ analysis_queue # <<>>
    /\ LET v == Head(analysis_queue) IN
        /\ v \in audio_files
        /\ analysis_records' =
              [analysis_records EXCEPT
                  ![v] = UpdateRecord(analysis_records[v], ErrorResult)]
        /\ handled' = handled \cup {v}
        /\ raised' = raised \cup {v}
    /\ analysis_queue' = AfterException(analysis_queue)
    /\ UNCHANGED <<audio_files, analysis_pc, analysis_runs, selected>>
    /\ UNCHANGED notAnalysis

\* An exception outside classify_audio_file is caught by run_local_analysis:
\* the record is left as it was.
AnalyzeRaises ==
    /\ analysis_pc = "running"
    /\ analysis_queue # <<>>
    /\ Head(analysis_queue) \in audio_files
    /\ handled' = handled \cup {Head(analysis_queue)}
    /\ analysis_queue' = AfterException(analysis_queue)
    /\ UNCHANGED <<analysis_records, audio_files, analysis_pc, analysis_runs,
                   selected, raised>>
    /\ UNCHANGED notAnalysis

\* The last record of the queue is done: the manifest is saved.
FinishAnalysis ==
    /\ analysis_pc = "running"
    /\ analysis_queue = <<>>
    /\ analysis_pc' = "idle"
    /\ analysis_runs' = analysis_runs + 1
    /\ UNCHANGED <<analysis_records, audio_files, analysis_queue, selected,
                   handled, raised>>
    /\ UNCHANGED notAnalysis

\* Between two runs a file is removed, or a later download brings it back.
FilesChange ==
    /\ analysis_pc = "idle"
    /\ analysis_runs > 0
    /\ analysis_runs < MaxAnalysisRuns
    /\ \E files \in SUBSET AnalysisVideos :
        /\ files # audio_files
        /\ audio_files' = files
    /\ UNCHANGED <<analysis_records, analysis_queue, analysis_pc,
                   analysis_runs, selected, handled, raised>>
    /\ UNCHANGED notAnalysis

AnalysisStep ==
    \/ StartAnalysis
    \/ AnalyzeMissing
    \/ AnalyzeClassifies
    \/ AnalyzeClassifierRaises
    \/ AnalyzeRaises
    \/ FinishAnalysis
    \/ FilesChange

C33_ErrorResultAndBatchGoesOn ==
    /\ \A v \in raised :
          /\ analysis_records[v].classified
          /\ analysis_records[v].containing_children_voice = "False"
          /\ analysis_records[v].voice_analysis_confidence = 0
    /\ (analysis_pc = "idle" /\ analysis_runs > 0) => selected \subseteq handled
    /\ analysis_pc = "running" =>
          selected = handled \cup InQueue(analysis_queue)

\* C33 witness: the classification of the first record raised, and the two
\* records after it have been classified by the model in the same run.
C33_Witness ==
    /\ analysis_pc = "idle"
    /\ analysis_runs = 1
    /\ raised = {1}
    /\ handled = AnalysisVideos
    /\ \A v \in AnalysisVideos \ {1} :
          analysis_records[v].voice_analysis_confidence = SomeConfidence

\* ------------------------------------------------------------------------
\* Channel quality assessment
\* ------------------------------------------------------------------------

\* Most videos of one channel.
MaxTotalVideos == 12

\* "channel_quality_threshold": 0.3, in tenths.
ThresholdTenths == 3

\* The channel that has been analyzed.
Username == "creator"

\* qualification_rate = (qualified_videos / total_videos) * 100, and
\* qualification_rate >= channel_quality_threshold, in exact arithmetic:
\* 100 * qualified / total >= threshold.
RateAtLeastThreshold(qualified, total) ==
    100 * qualified * 10 >= ThresholdTenths * total

QualityAtRest ==
    /\ qualified_videos = 0
    /\ total_videos = 0
    /\ promising_channels = {}
    /\ quality_pc = "idle"

\* A channel has been analyzed: some of its videos qualify.
QualityStart ==
    /\ total_videos \in 0..MaxTotalVideos
    /\ qualified_videos \in 0..total_videos
    /\ promising_channels = {}
    /\ quality_pc = "analyzed"

\* Calculate the qualification rate; mark as promising if above threshold.
AssessQuality ==
    /\ quality_pc = "analyzed"
    /\ total_videos > 0
    /\ promising_channels' =
          IF RateAtLeastThreshold(qualified_videos, total_videos)
          THEN promising_channels \cup {Username}
          ELSE promising_channels
    /\ quality_pc' = "assessed"
    /\ UNCHANGED <<qualified_videos, total_videos>>
    /\ UNCHANGED notQuality

\* total_videos is 0: the division raises ZeroDivisionError.
AssessRaises ==
    /\ quality_pc = "analyzed"
    /\ total_videos = 0
    /\ quality_pc' = "raised"
    /\ UNCHANGED <<qualified_videos, total_videos, promising_channels>>
    /\ UNCHANGED notQuality

QualityStep == AssessQuality \/ AssessRaises

\* C38: after the assessment, the creator is marked promising if and only
\* if the fraction of the analyzed videos that qualify is at least the
\* quality threshold of 0.3.
C38_PromisingIffFractionAtLeastThreshold ==
    quality_pc = "assessed" =>
        (Username \in promising_channels
            <=> 10 * qualified_videos >= ThresholdTenths * total_videos)

\* C38, what the comparison does bring about: the creator is marked
\* promising if and only if the percentage of qualifying videos is at least
\* 0.3, which with up to 333 videos is as soon as one video qualifies.
C38_PromisingIffPercentageAtLeastThreshold ==
    quality_pc = "assessed" =>
        (Username \in promising_channels <=> qualified_videos >= 1)

\* ------------------------------------------------------------------------
\* Scheduled job: trigger_daily_queries
\* ------------------------------------------------------------------------

\* Scheduled ticks of one behaviour.
MaxTicks == 4

Ticks == 1..MaxTicks

\* A scheduler that drops a job whose run failed.
DroppedAfterFailure(scheduled, failed) == scheduled /\ ~failed

\* The job stays scheduled whatever its last run did.
StillScheduled(scheduled, failed) == scheduled

SchedAtRest ==
    /\ sched_tick = 0
    /\ job_pc = "waiting"
    /\ run_outcome = [t \in Ticks |-> "none"]
    /\ error_log = {}
    /\ info_log = {}
    /\ job_scheduled = TRUE

\* The scheduler fires trigger_daily_queries at its tick.
Tick ==
    /\ job_scheduled
    /\ job_pc = "waiting"
    /\ sched_tick < MaxTicks
    /\ sched_tick' = sched_tick + 1
    /\ job_pc' = "post_rating"
    /\ run_outcome' = [run_outcome EXCEPT ![sched_tick + 1] = "running"]
    /\ UNCHANGED <<error_log, info_log, job_scheduled>>
    /\ UNCHANGED notSched

\* requests.post(.../queryRating_logLarkbase); "Rating query triggered"
PostRating ==
    /\ job_pc = "post_rating"
    /\ info_log' = info_log \cup {<<sched_tick, "Rating query triggered">>}
    /\ job_pc' = "post_workflow"
    /\ UNCHANGED <<sched_tick, run_outcome, error_log, job_scheduled>>
    /\ UNCHANGED notSched

\* requests.post(.../queryRatingToolsWorkflowMindpal_logLarkbase);
\* "Workflow query triggered"; the job returns.
PostWorkflow ==
    /\ job_pc = "post_workflow"
    /\ info_log' = info_log \cup {<<sched_tick, "Workflow query triggered">>}
    /\ job_pc' = "waiting"
    /\ run_outcome' = [run_outcome EXCEPT ![sched_tick] = "ok"]
    /\ job_scheduled' = StillScheduled(job_scheduled, FALSE)
    /\ UNCHANGED <<sched_tick, error_log>>
    /\ UNCHANGED notSched

\* One of the two posts raises: except Exception as e: logger.error(...);
\* the job returns.
PostRaises ==
    /\ job_pc \in {"post_rating", "post_workflow"}
    /\ error_log' = error_log \cup {sched_tick}
    /\ job_pc' = "waiting"
    /\ run_outcome' = [run_outcome EXCEPT ![sched_tick] = "failed"]
    /\ job_scheduled' = StillScheduled(job_scheduled, TRUE)
    /\ UNCHANGED <<sched_tick, info_log>>
    /\ UNCHANGED notSched

SchedStep == Tick \/ PostRating \/ PostWorkflow \/ PostRaises

\* The timer of the scheduler fires; a post returns or raises.
SchedFairness ==
    /\ WF_vars(Tick)
    /\ WF_vars(PostRating \/ PostWorkflow \/ PostRaises)

\* C39: a run of the job in which a post raised is logged as an error, the
\* job stays scheduled, and the scheduler fires the job at the next tick.
C39_FailedRunDoesNotStopSchedule ==
    /\ [](\A t \in Ticks : run_outcome[t] = "failed" => t \in error_log)
    /\ []job_scheduled
    /\ \A t \in 1..(MaxTicks - 1) :
          (run_outcome[t] = "failed") ~> (run_outcome[t + 1] # "none")

\* C39 witness: the run of the first tick failed after its first post, and
\* the run of the second tick went through.
C39_Witness ==
    /\ run_outcome[1] = "failed"
    /\ 1 \in error_log
    /\ <<1, "Rating query triggered">> \in info_log
    /\ <<1, "Workflow query triggered">> \notin info_log
    /\ run_outcome[2] = "ok"

\* ------------------------------------------------------------------------
\* Demo page: the speech-to-text and assign-roles click handlers
\* ------------------------------------------------------------------------

Buttons == {"speechToTextButton", "assignRolesButton"}

WaitMessage(b) ==
    IF b = "speechToTextButton" THEN "Processing... Please wait."
    ELSE "Assigning roles... Please wait."

\* A catch handler that leaves the button as it is.
LeftAsItIs(disabled) == disabled

\* button.disabled = false
EnabledAgain(disabled) == FALSE

DemoAtRest ==
    /\ button_disabled = [b \in Buttons |-> FALSE]
    /\ request = [b \in Buttons |-> "none"]
    /\ message = ""
    /\ has_input = [b \in Buttons |-> FALSE]
    /\ last_call = [b \in Buttons |-> "none"]

\* The user selects an audio file, or types a transcription.
ProvideInput(b) ==
    /\ ~has_input[b]
    /\ has_input' = [has_input EXCEPT ![b] = TRUE]
    /\ UNCHANGED <<button_disabled, request, message, last_call>>
    /\ UNCHANGED notDemo

\* click with no file selected, or with an empty transcription: alert, return.
ClickWithoutInput(b) ==
    /\ ~button_disabled[b]
    /\ ~has_input[b]
    /\ last_call' = [last_call EXCEPT ![b] = "refused"]
    /\ UNCHANGED <<button_disabled, request, message, has_input>>
    /\ UNCHANGED notDemo

\* click: button.disabled = true; the wait message; fetch(...) is sent.
Click(b) ==
    /\ ~button_disabled[b]
    /\ has_input[b]
    /\ button_disabled' = [button_disabled EXCEPT ![b] = TRUE]
    /\ message' = WaitMessage(b)
    /\ request' = [request EXCEPT ![b] = "sent"]
    /\ last_call' = [last_call EXCEPT ![b] = "pending"]
    /\ UNCHANGED has_input
    /\ UNCHANGED notDemo

\* The response arrives: the promise of fetch resolves.
FetchResolves(b) ==
    /\ request[b] = "sent"
    /\ request' = [request EXCEPT ![b] = "response"]
    /\ UNCHANGED <<button_disabled, message, has_input, last_call>>
    /\ UNCHANGED notDemo

\* The request fails: the promise of fetch rejects.
FetchRejects(b) ==
    /\ request[b] = "sent"
    /\ request' = [request EXCEPT ![b] = "rejected"]
    /\ UNCHANGED <<button_disabled, message, has_input, last_call>>
    /\ UNCHANGED notDemo

\* response.json() rejects: the body is not JSON.
JsonRejects(b) ==
    /\ request[b] = "response"
    /\ request' = [request EXCEPT ![b] = "rejected"]
    /\ UNCHANGED <<button_disabled, message, has_input, last_call>>
    /\ UNCHANGED notDemo

\* .then(data => ...): the transcription or the chat is shown, or the alert
\* with data.msg; the message is cleared and the button enabled.  A
\* transcription that arrived is the input of assign-roles.
ThenHandler(b) ==
    /\ request[b] = "response"
    /\ \E success \in BOOLEAN :
        /\ has_input' = IF success /\ b = "speechToTextButton"
                        THEN [has_input EXCEPT !["assignRolesButton"] = TRUE]
                        ELSE has_input
        /\ last_call' = [last_call EXCEPT ![b] = IF success THEN "shown" ELSE "error_alert"]
    /\ message' = ""
    /\ button_disabled' = [button_disabled EXCEPT ![b] = FALSE]
    /\ request' = [request EXCEPT ![b] = "none"]
    /\ UNCHANGED notDemo

\* The then handler throws before it comes to the button (data is null, or
\* data.roles is not a string): the promise rejects.
ThenHandlerThrows(b) ==
    /\ request[b] = "response"
    /\ request' = [request EXCEPT ![b] = "rejected"]
    /\ UNCHANGED <<button_disabled, message, has_input, last_call>>
    /\ UNCHANGED notDemo

\* .catch(error => ...): console.error, alert, the message is cleared and
\* the button enabled.
CatchHandler(b) ==
    /\ request[b] = "rejected"
    /\ message' = ""
    /\ button_disabled' = [button_disabled EXCEPT ![b] = EnabledAgain(button_disabled[b])]
    /\ request' = [request EXCEPT ![b] = "none"]
    /\ last_call' = [last_call EXCEPT ![b] = "failed_alert"]
    /\ UNCHANGED has_input
    /\ UNCHANGED notDemo

DemoStep ==
    \E b \in Buttons :
        \/ ProvideInput(b)
        \/ ClickWithoutInput(b)
        \/ Click(b)
        \/ FetchResolves(b)
        \/ FetchRejects(b)
        \/ JsonRejects(b)
        \/ ThenHandler(b)
        \/ ThenHandlerThrows(b)
        \/ CatchHandler(b)

\* The handlers of a settled promise run.
DemoFairness ==
    \A b \in Buttons :
        /\ WF_vars(JsonRejects(b) \/ ThenHandler(b) \/ ThenHandlerThrows(b))
        /\ WF_vars(CatchHandler(b))

\* C40: for each of the two actions, the button is disabled from the moment
\* the request is sent until its response or its error has been handled, it
\* is enabled whenever no call of the action is under way, and once the
\* response or the error has arrived it is enabled again.
C40_ButtonDisabledDuringCall ==
    /\ [](\A b \in Buttons : button_disabled[b] <=> request[b] # "none")
    /\ \A b \in Buttons :
          (request[b] \in {"response", "rejected"}) ~> ~button_disabled[b]

\* C40 witness: the speech-to-text call failed and its button is enabled
\* again, while the assign-roles request is on its way with its button
\* disabled.
C40_Witness ==
    /\ last_call["speechToTextButton"] = "failed_alert"
    /\ ~button_disabled["speechToTextButton"]
    /\ request["assignRolesButton"] = "sent"
    /\ button_disabled["assignRolesButton"]

\* ------------------------------------------------------------------------
\* Specifications
\* ------------------------------------------------------------------------

InitLock == LockAtRest /\ SaveAtRest /\ DlAtRest /\ FilterAtRest /\ PipeAtRest /\ SearchAtRest /\ KeysAtRest /\ LangAtRest /\ RootAtRest /\ ChannelAtRest /\ CleanAtRest /\ ClassifierAtRest /\ VoiceAtRest /\ BatchAtRest /\ ClientAtRest /\ UploadPhaseAtRest /\ RunAtRest /\ ValidationAtRest /\ ResumeAtRest /\ AnalysisAtRest /\ QualityAtRest /\ SchedAtRest /\ DemoAtRest
SpecLock == InitLock /\ [][LockStep]_vars

\* Every process that is inside acquire_lock goes on executing its loop.
LockFairness ==
    \A p \in Procs :
        WF_vars(AcquireSucceed(p) \/ AcquireBackoff(p) \/ AcquireTimeout(p))
SpecLockFair == InitLock /\ [][LockStep]_vars /\ LockFairness

\* The critical section of a holder is a finite piece of code: it ends.
HolderFairness == \A p \in Procs : WF_vars(ReleaseLock(p))
SpecLockHolder == InitLock /\ [][LockStep]_vars /\ LockFairness /\ HolderFairness

InitSave == SaveStart /\ LockAtRest /\ DlAtRest /\ FilterAtRest /\ PipeAtRest /\ SearchAtRest /\ KeysAtRest /\ LangAtRest /\ RootAtRest /\ ChannelAtRest /\ CleanAtRest /\ ClassifierAtRest /\ VoiceAtRest /\ BatchAtRest /\ ClientAtRest /\ UploadPhaseAtRest /\ RunAtRest /\ ValidationAtRest /\ ResumeAtRest /\ AnalysisAtRest /\ QualityAtRest /\ SchedAtRest /\ DemoAtRest
SpecSave == InitSave /\ [][SaveStep]_vars

InitDownload == DlStart /\ LockAtRest /\ SaveAtRest /\ FilterAtRest /\ PipeAtRest /\ SearchAtRest /\ KeysAtRest /\ LangAtRest /\ RootAtRest /\ ChannelAtRest /\ CleanAtRest /\ ClassifierAtRest /\ VoiceAtRest /\ BatchAtRest /\ ClientAtRest /\ UploadPhaseAtRest /\ RunAtRest /\ ValidationAtRest /\ ResumeAtRest /\ AnalysisAtRest /\ QualityAtRest /\ SchedAtRest /\ DemoAtRest
SpecDownload == InitDownload /\ [][DlStep]_vars

InitFilter == FilterStart /\ LockAtRest /\ SaveAtRest /\ DlAtRest /\ PipeAtRest /\ SearchAtRest /\ KeysAtRest /\ LangAtRest /\ RootAtRest /\ ChannelAtRest /\ CleanAtRest /\ ClassifierAtRest /\ VoiceAtRest /\ BatchAtRest /\ ClientAtRest /\ UploadPhaseAtRest /\ RunAtRest /\ ValidationAtRest /\ ResumeAtRest /\ AnalysisAtRest /\ QualityAtRest /\ SchedAtRest /\ DemoAtRest
SpecFilter == InitFilter /\ [][FilterStep]_vars

InitPipeline == PipeAtRest /\ LockAtRest /\ SaveAtRest /\ DlAtRest /\ FilterAtRest /\ SearchAtRest /\ KeysAtRest /\ LangAtRest /\ RootAtRest /\ ChannelAtRest /\ CleanAtRest /\ ClassifierAtRest /\ VoiceAtRest /\ BatchAtRest /\ ClientAtRest /\ UploadPhaseAtRest /\ RunAtRest /\ ValidationAtRest /\ ResumeAtRest /\ AnalysisAtRest /\ QualityAtRest /\ SchedAtRest /\ DemoAtRest
SpecPipeline == InitPipeline /\ [][PipeStep]_vars

InitSearch == SearchAtRest /\ LockAtRest /\ SaveAtRest /\ DlAtRest /\ FilterAtRest /\ PipeAtRest /\ KeysAtRest /\ LangAtRest /\ RootAtRest /\ ChannelAtRest /\ CleanAtRest /\ ClassifierAtRest /\ VoiceAtRest /\ BatchAtRest /\ ClientAtRest /\ UploadPhaseAtRest /\ RunAtRest /\ ValidationAtRest /\ ResumeAtRest /\ AnalysisAtRest /\ QualityAtRest /\ SchedAtRest /\ DemoAtRest
SpecSearch == InitSearch /\ [][SearchStep]_vars

InitKeys == KeysAtRest /\ DlAtRest /\ FilterAtRest /\ LockAtRest /\ PipeAtRest /\ SaveAtRest /\ SearchAtRest /\ LangAtRest /\ RootAtRest /\ ChannelAtRest /\ CleanAtRest /\ ClassifierAtRest /\ VoiceAtRest /\ BatchAtRest /\ ClientAtRest /\ UploadPhaseAtRest /\ RunAtRest /\ ValidationAtRest /\ ResumeAtRest /\ AnalysisAtRest /\ QualityAtRest /\ SchedAtRest /\ DemoAtRest
SpecKeys == InitKeys /\ [][KeysStep]_vars /\ WF_vars(PollSleep) /\ WF_vars(ProbeKey)

InitLang == LangStart /\ DlAtRest /\ FilterAtRest /\ KeysAtRest /\ LockAtRest /\ PipeAtRest /\ SaveAtRest /\ SearchAtRest /\ RootAtRest /\ ChannelAtRest /\ CleanAtRest /\ ClassifierAtRest /\ VoiceAtRest /\ BatchAtRest /\ ClientAtRest /\ UploadPhaseAtRest /\ RunAtRest /\ ValidationAtRest /\ ResumeAtRest /\ AnalysisAtRest /\ QualityAtRest /\ SchedAtRest /\ DemoAtRest
SpecLang == InitLang /\ [][LangStep]_vars

InitRoot == RootStart /\ DlAtRest /\ FilterAtRest /\ KeysAtRest /\ LangAtRest /\ LockAtRest /\ PipeAtRest /\ SaveAtRest /\ SearchAtRest /\ ChannelAtRest /\ CleanAtRest /\ ClassifierAtRest /\ VoiceAtRest /\ BatchAtRest /\ ClientAtRest /\ UploadPhaseAtRest /\ RunAtRest /\ ValidationAtRest /\ ResumeAtRest /\ AnalysisAtRest /\ QualityAtRest /\ SchedAtRest /\ DemoAtRest
SpecRoot == InitRoot /\ [][RootStep]_vars

InitChannel == ChannelStart /\ DlAtRest /\ FilterAtRest /\ KeysAtRest /\ LangAtRest /\ LockAtRest /\ PipeAtRest /\ RootAtRest /\ SaveAtRest /\ SearchAtRest /\ CleanAtRest /\ ClassifierAtRest /\ VoiceAtRest /\ BatchAtRest /\ ClientAtRest /\ UploadPhaseAtRest /\ RunAtRest /\ ValidationAtRest /\ ResumeAtRest /\ AnalysisAtRest /\ QualityAtRest /\ SchedAtRest /\ DemoAtRest
SpecChannel == InitChannel /\ [][ChannelStep]_vars

InitClean == CleanStart /\ ChannelAtRest /\ DlAtRest /\ FilterAtRest /\ KeysAtRest /\ LangAtRest /\ LockAtRest /\ PipeAtRest /\ RootAtRest /\ SaveAtRest /\ SearchAtRest /\ ClassifierAtRest /\ VoiceAtRest /\ BatchAtRest /\ ClientAtRest /\ UploadPhaseAtRest /\ RunAtRest /\ ValidationAtRest /\ ResumeAtRest /\ AnalysisAtRest /\ QualityAtRest /\ SchedAtRest /\ DemoAtRest
SpecClean == InitClean /\ [][CleanStep]_vars

InitClassifier == ChannelAtRest /\ CleanAtRest /\ DlAtRest /\ FilterAtRest /\ KeysAtRest /\ LangAtRest /\ LockAtRest /\ PipeAtRest /\ RootAtRest /\ SaveAtRest /\ SearchAtRest /\ ClassifierAtRest /\ VoiceAtRest /\ BatchAtRest /\ ClientAtRest /\ UploadPhaseAtRest /\ RunAtRest /\ ValidationAtRest /\ ResumeAtRest /\ AnalysisAtRest /\ QualityAtRest /\ SchedAtRest /\ DemoAtRest
SpecClassifier == InitClassifier /\ [][ClassifierStep]_vars

InitVoice == VoiceStart /\ ChannelAtRest /\ ClassifierAtRest /\ CleanAtRest /\ DlAtRest /\ FilterAtRest /\ KeysAtRest /\ LangAtRest /\ LockAtRest /\ PipeAtRest /\ RootAtRest /\ SaveAtRest /\ SearchAtRest /\ BatchAtRest /\ ClientAtRest /\ UploadPhaseAtRest /\ RunAtRest /\ ValidationAtRest /\ ResumeAtRest /\ AnalysisAtRest /\ QualityAtRest /\ SchedAtRest /\ DemoAtRest
SpecVoice == InitVoice /\ [][VoiceStep]_vars

InitBatch == BatchStart /\ ChannelAtRest /\ ClassifierAtRest /\ CleanAtRest /\ DlAtRest /\ FilterAtRest /\ KeysAtRest /\ LangAtRest /\ LockAtRest /\ PipeAtRest /\ RootAtRest /\ SaveAtRest /\ SearchAtRest /\ VoiceAtRest /\ ClientAtRest /\ UploadPhaseAtRest /\ RunAtRest /\ ValidationAtRest /\ ResumeAtRest /\ AnalysisAtRest /\ QualityAtRest /\ SchedAtRest /\ DemoAtRest
SpecBatch == InitBatch /\ [][BatchStep]_vars

InitClient == ClientStart /\ BatchAtRest /\ ChannelAtRest /\ ClassifierAtRest /\ CleanAtRest /\ DlAtRest /\ FilterAtRest /\ KeysAtRest /\ LangAtRest /\ LockAtRest /\ PipeAtRest /\ RootAtRest /\ SaveAtRest /\ SearchAtRest /\ VoiceAtRest /\ UploadPhaseAtRest /\ RunAtRest /\ ValidationAtRest /\ ResumeAtRest /\ AnalysisAtRest /\ QualityAtRest /\ SchedAtRest /\ DemoAtRest
SpecClient == InitClient /\ [][ClientStep]_vars

InitUploadPhase == BatchAtRest /\ ChannelAtRest /\ ClassifierAtRest /\ CleanAtRest /\ ClientAtRest /\ DlAtRest /\ FilterAtRest /\ KeysAtRest /\ LangAtRest /\ LockAtRest /\ PipeAtRest /\ RootAtRest /\ SaveAtRest /\ SearchAtRest /\ VoiceAtRest /\ UploadPhaseAtRest /\ RunAtRest /\ ValidationAtRest /\ ResumeAtRest /\ AnalysisAtRest /\ QualityAtRest /\ SchedAtRest /\ DemoAtRest
SpecUploadPhase == InitUploadPhase /\ [][UploadPhaseStep]_vars

InitRun == RunStart /\ BatchAtRest /\ ChannelAtRest /\ ClassifierAtRest /\ CleanAtRest /\ ClientAtRest /\ DlAtRest /\ FilterAtRest /\ KeysAtRest /\ LangAtRest /\ LockAtRest /\ PipeAtRest /\ RootAtRest /\ SaveAtRest /\ SearchAtRest /\ UploadPhaseAtRest /\ VoiceAtRest /\ ValidationAtRest /\ ResumeAtRest /\ AnalysisAtRest /\ QualityAtRest /\ SchedAtRest /\ DemoAtRest
SpecRun == InitRun /\ [][RunStep]_vars

InitValidation == ValidationStart /\ BatchAtRest /\ ChannelAtRest /\ ClassifierAtRest /\ CleanAtRest /\ ClientAtRest /\ DlAtRest /\ FilterAtRest /\ KeysAtRest /\ LangAtRest /\ LockAtRest /\ PipeAtRest /\ RootAtRest /\ RunAtRest /\ SaveAtRest /\ SearchAtRest /\ UploadPhaseAtRest /\ VoiceAtRest /\ ResumeAtRest /\ AnalysisAtRest /\ QualityAtRest /\ SchedAtRest /\ DemoAtRest
SpecValidation == InitValidation /\ [][ValidationStep]_vars

InitResume == BatchAtRest /\ ChannelAtRest /\ ClassifierAtRest /\ CleanAtRest /\ ClientAtRest /\ DlAtRest /\ FilterAtRest /\ KeysAtRest /\ LangAtRest /\ LockAtRest /\ PipeAtRest /\ RootAtRest /\ RunAtRest /\ SaveAtRest /\ SearchAtRest /\ UploadPhaseAtRest /\ ValidationAtRest /\ VoiceAtRest /\ ResumeAtRest /\ AnalysisAtRest /\ QualityAtRest /\ SchedAtRest /\ DemoAtRest
SpecResume == InitResume /\ [][ResumeStep]_vars /\ ResumeFairness

InitAnalysis == BatchAtRest /\ ChannelAtRest /\ ClassifierAtRest /\ CleanAtRest /\ ClientAtRest /\ DlAtRest /\ FilterAtRest /\ KeysAtRest /\ LangAtRest /\ LockAtRest /\ PipeAtRest /\ ResumeAtRest /\ RootAtRest /\ RunAtRest /\ SaveAtRest /\ SearchAtRest /\ UploadPhaseAtRest /\ ValidationAtRest /\ VoiceAtRest /\ AnalysisStart /\ QualityAtRest /\ SchedAtRest /\ DemoAtRest
SpecAnalysis == InitAnalysis /\ [][AnalysisStep]_vars

InitQuality == AnalysisAtRest /\ BatchAtRest /\ ChannelAtRest /\ ClassifierAtRest /\ CleanAtRest /\ ClientAtRest /\ DlAtRest /\ FilterAtRest /\ KeysAtRest /\ LangAtRest /\ LockAtRest /\ PipeAtRest /\ ResumeAtRest /\ RootAtRest /\ RunAtRest /\ SaveAtRest /\ SearchAtRest /\ UploadPhaseAtRest /\ ValidationAtRest /\ VoiceAtRest /\ QualityStart /\ SchedAtRest /\ DemoAtRest
SpecQuality == InitQuality /\ [][QualityStep]_vars

InitSched == AnalysisAtRest /\ BatchAtRest /\ ChannelAtRest /\ ClassifierAtRest /\ CleanAtRest /\ ClientAtRest /\ DlAtRest /\ FilterAtRest /\ KeysAtRest /\ LangAtRest /\ LockAtRest /\ PipeAtRest /\ QualityAtRest /\ ResumeAtRest /\ RootAtRest /\ RunAtRest /\ SaveAtRest /\ SearchAtRest /\ UploadPhaseAtRest /\ ValidationAtRest /\ VoiceAtRest /\ SchedAtRest /\ DemoAtRest
SpecSched == InitSched /\ [][SchedStep]_vars /\ SchedFairness

InitDemo == AnalysisAtRest /\ BatchAtRest /\ ChannelAtRest /\ ClassifierAtRest /\ CleanAtRest /\ ClientAtRest /\ DlAtRest /\ FilterAtRest /\ KeysAtRest /\ LangAtRest /\ LockAtRest /\ PipeAtRest /\ QualityAtRest /\ ResumeAtRest /\ RootAtRest /\ RunAtRest /\ SaveAtRest /\ SchedAtRest /\ SearchAtRest /\ UploadPhaseAtRest /\ ValidationAtRest /\ VoiceAtRest /\ DemoAtRest
SpecDemo == InitDemo /\ [][DemoStep]_vars /\ DemoFairness

====
